---- MODULE Spec2Model ----
(***************************************************************************)
(* Model of the bounty-archive scraper: the crawl engine of                *)
(* scraping/scraper.py (run, scrape_job, scrape_recursive, scrape_single,  *)
(* update_index, save_links, clear_queue), the static handler of           *)
(* scraping/handlers/static.py and the stores of scraping/data.py.         *)
(*                                                                         *)
(* A URL string "scheme://host/p/q?x" is the record                        *)
(*   [scheme |-> "https", host |-> <<"docs","example","com">>,            *)
(*    rest |-> <<"/","p","/","q","?","x">>]                                *)
(* so that str.rstrip('/'), urlparse and str.startswith are computed on    *)
(* the characters after the host.                                          *)
(***************************************************************************)
EXTENDS Integers, Sequences, FiniteSets, TLC

----------------------------------------------------------------------------
(* Bounds of the model *)

\* largest number of <a href> elements on one fetched page
MaxLinks == 1
\* largest max_depth of a queue entry of the model (the code accepts 0..9)
MaxDepth == 1
\* number of times run() is started
MaxRuns == 2

\* Python's None where an integer may stand (error_code)
None == -1

----------------------------------------------------------------------------
(* URLs *)

Url(scheme, host, rest) == [scheme |-> scheme, host |-> host, rest |-> rest]

DocsHost == <<"docs", "example", "com">>
XHost == <<"x", "com">>
PartnerHost == <<"partner", "org">>
AdsHost == <<"ads", "net">>

SeedSlash == Url("https", DocsHost, <<"/">>)
SeedGuide == Url("https", DocsHost, <<"/", "guide">>)
Seeds == {SeedSlash, SeedGuide}

\* the absolute URLs (after urljoin) that anchors of the modelled pages carry
Hrefs ==
  { Url("https", DocsHost, <<"/", "guide">>),
    Url("https", DocsHost, <<"/", "guide", "/">>),
    Url("https", DocsHost, <<"/">>),
    Url("https", XHost, <<"/", "foo">>),
    Url("https", PartnerHost, <<"/">>),
    Url("https", AdsHost, <<"/", "banner">>),
    Url("mailto", <<>>, <<"team">>) }

\* str.rstrip('/') on the characters of a sequence
RECURSIVE StripTrailing(_)
StripTrailing(s) ==
  IF s # <<>> /\ s[Len(s)] = "/" THEN StripTrailing(SubSeq(s, 1, Len(s) - 1)) ELSE s

\* str.lstrip('/')
RECURSIVE StripLeading(_)
StripLeading(s) ==
  IF s # <<>> /\ s[1] = "/" THEN StripLeading(Tail(s)) ELSE s

\* url.rstrip('/'): the host never ends with "/", so only rest is stripped
RStrip(u) == [u EXCEPT !.rest = StripTrailing(u.rest)]

\* position of the first "?" of a sequence, 0 when there is none
QMark(s) ==
  IF \E i \in 1..Len(s) : s[i] = "?"
  THEN CHOOSE i \in 1..Len(s) : s[i] = "?" /\ \A j \in 1..(i - 1) : s[j] # "?"
  ELSE 0

\* urlparse(url).path and .query
UrlPath(u) == IF QMark(u.rest) = 0 THEN u.rest ELSE SubSeq(u.rest, 1, QMark(u.rest) - 1)
UrlQuery(u) == IF QMark(u.rest) = 0 THEN <<>> ELSE SubSeq(u.rest, QMark(u.rest) + 1, Len(u.rest))

\* str.startswith
StartsWith(s, p) == Len(p) <= Len(s) /\ SubSeq(s, 1, Len(p)) = p

\* `pat in s` for host names, on whole labels
HostContains(s, pat) ==
  \E i \in 0..(Len(s) - Len(pat)) : SubSeq(s, i + 1, i + Len(pat)) = pat

----------------------------------------------------------------------------
(* Configuration: scraping/config.py *)

\* A ScrapeConfig object: the attributes that carry data.  Reading an
\* attribute the object does not have raises AttributeError.
ScrapeConfig ==
  [ ignored_urls |-> { Url("https", AdsHost, <<"/">>) },
    rate_limit_delay |-> 1,
    request_timeout |-> 30,
    user_agent |-> "PolkadotBountyArchive/1.0",
    default_mode |-> "single",
    domain_categories |-> << [pattern |-> <<"github">>, cats |-> [list |-> <<"github">>]] >>,
    path_categories |-> <<>>,
    type_mapping |-> <<>>,
    link_categories |-> <<>> ]

HasAttr(obj, name) == name \in DOMAIN obj

\* ScrapeConfig.is_ignored: exact match after rstrip, or the ignored host
\* is contained in the URL's host
is_ignored(u) ==
  \E item \in ScrapeConfig.ignored_urls :
     \/ RStrip(u) = RStrip(item)
     \/ RStrip(item).host # <<>> /\ HostContains(u.host, RStrip(item).host)

----------------------------------------------------------------------------
(* The network and the static handler: scraping/handlers/static.py *)

StatusCodes == {200, 204, 404}

\* the anchors of the seed page of the example of the specification: /guide,
\* https://x.com/foo and https://partner.org/
ExampleAnchors ==
  { Url("https", DocsHost, <<"/", "guide">>),
    Url("https", XHost, <<"/", "foo">>),
    Url("https", PartnerHost, <<"/">>) }

\* the anchor sets of the modelled pages
AnchorSets == { h \in SUBSET Hrefs : Cardinality(h) <= MaxLinks } \cup {ExampleAnchors}

\* What session.get can produce for one request: an exception (timeout, DNS,
\* connection refused) or a response with a status, a text or binary body and,
\* in a text body, anchors.
Responses ==
  { [kind |-> "exception", status_code |-> 0, text |-> FALSE, hrefs |-> {}] }
  \cup { [kind |-> "response", status_code |-> c, text |-> FALSE, hrefs |-> {}] :
           c \in StatusCodes }
  \cup { [kind |-> "response", status_code |-> c, text |-> TRUE, hrefs |-> h] :
           c \in StatusCodes, h \in AnchorSets }

NoMessage == [text |-> "None", code |-> None]
HttpMessage(c) == [text |-> "HTTP", code |-> c]
ExceptionMessage == [text |-> "exception", code |-> None]

\* _get_file_extension, by the content type of the body
GetFileExtension(resp) == IF resp.text THEN ".html" ELSE ".pdf"

\* StaticHttpScraper.fetch
fetch(url, resp) ==
  IF resp.kind = "exception"
  THEN [has_page |-> FALSE, error_code |-> None, error_message |-> ExceptionMessage]
  ELSE [has_page |-> TRUE,
        url |-> url,
        status_code |-> resp.status_code,
        extension |-> GetFileExtension(resp),
        text |-> resp.text,
        hrefs |-> resp.hrefs,
        internal_links |-> {}, external_links |-> {}, social_links |-> {},
        error_code |-> IF resp.status_code # 200 THEN resp.status_code ELSE None,
        error_message |-> IF resp.status_code # 200 THEN HttpMessage(resp.status_code)
                          ELSE NoMessage]

\* the normalized form of an anchor target: fragment and trailing slash of
\* the path dropped, query kept
NormalizedLink(h) ==
  Url(h.scheme, h.host,
      StripTrailing(UrlPath(h)) \o
        (IF UrlQuery(h) # <<>> THEN <<"?">> \o UrlQuery(h) ELSE <<>>))

\* the anchors of a page that reach the classification at static.py:109
SurvivingHrefs(hrefs, base_url) ==
  { h \in hrefs : /\ h.scheme \in {"http", "https"}
                  /\ NormalizedLink(h) # RStrip(base_url)
                  /\ ~is_ignored(NormalizedLink(h)) }

\* StaticHttpScraper._extract_links.  The first surviving anchor makes the
\* loop read config.social_domains; when the config object has no such
\* attribute the read raises and nothing is returned.
ExtractLinks(hrefs, base_url, config) ==
  LET surv == SurvivingHrefs(hrefs, base_url)
      base_path == StripTrailing(UrlPath(base_url))
      isSocial(h) == h.host \in config.social_domains
      isInternal(h) == h.host = base_url.host /\ StartsWith(UrlPath(h), base_path)
  IN IF surv # {} /\ ~HasAttr(config, "social_domains")
     THEN [raised |-> TRUE, internal |-> {}, external |-> {}, social |-> {}]
     ELSE [raised |-> FALSE,
           social |-> { NormalizedLink(h) : h \in { x \in surv : isSocial(x) } },
           internal |-> { NormalizedLink(h) :
                            h \in { x \in surv : ~isSocial(x) /\ isInternal(x) } },
           external |-> { NormalizedLink(h) :
                            h \in { x \in surv : ~isSocial(x) /\ ~isInternal(x) } }]

\* PolkadotBountyScraper.scrape_page: resolve the handler (the registry holds
\* the static handler only), fetch, and discover the links of a text body.
scrape_page(url, base_url, resp) ==
  LET f == fetch(url, resp)
      links == ExtractLinks(f.hrefs, base_url, ScrapeConfig)
  IN IF ~f.has_page THEN [raised |-> FALSE, page |-> f]
     ELSE IF ~f.text THEN [raised |-> FALSE, page |-> f]
     ELSE IF links.raised THEN [raised |-> TRUE, page |-> f]
     ELSE [raised |-> FALSE,
           page |-> [f EXCEPT !.internal_links = links.internal,
                              !.external_links = links.external,
                              !.social_links = links.social]]

----------------------------------------------------------------------------
(* Python helpers *)

\* dict.get(key, default)
Get(d, key, default) == IF key \in DOMAIN d THEN d[key] ELSE default

\* d[key] = value
Put(d, key, value) == [k \in DOMAIN d \cup {key} |-> IF k = key THEN value ELSE d[k]]

\* `a or b` on integers that may be None
OrElse(a, b) == IF a = None \/ a = 0 THEN b ELSE a

\* the elements of a list
Range(q) == { q[i] : i \in 1..Len(q) }

\* the tokens of the model's URLs in the order of their strings
TokenOrder ==
  << "/", "?", "ads", "banner", "com", "docs", "example", "foo", "github", "guide", "http",
     "https", "mailto", "net", "org", "partner", "team", "x", "y" >>

Rank(t) == CHOOSE i \in 1..Len(TokenOrder) : TokenOrder[i] = t

UrlKey(u) ==
  <<Rank(u.scheme)>> \o [i \in 1..Len(u.host) |-> Rank(u.host[i])] \o <<0>>
    \o [i \in 1..Len(u.rest) |-> Rank(u.rest[i])]

\* a < b for sequences of integers, a proper prefix being smaller
LexLess(a, b) ==
  \E i \in 1..(Len(b)) :
     /\ \A j \in 1..(i - 1) : j <= Len(a) /\ a[j] = b[j]
     /\ \/ i = Len(a) + 1
        \/ i <= Len(a) /\ a[i] < b[i]

\* sorted(S) for a set of URLs
sorted(S) ==
  CHOOSE q \in [1..Cardinality(S) -> S] :
     \A i, j \in 1..Cardinality(S) : i < j => LexLess(UrlKey(q[i]), UrlKey(q[j]))

\* the orders in which a for loop can walk a Python set
Orders(S) ==
  { q \in [1..Cardinality(S) -> S] : \A x \in S : \E i \in 1..Cardinality(S) : q[i] = x }

----------------------------------------------------------------------------
(* Classification: scraping/config.py *)

\* str.lower() on the characters of the modelled strings
LowerChar(c) ==
  CASE c = "X" -> "x"
    [] c = "C" -> "c"
    [] c = "E" -> "e"
    [] c = "G" -> "g"
    [] c = "D" -> "d"
    [] OTHER -> c

Lower(str) == [i \in 1..Len(str) |-> LowerChar(str[i])]

\* `pat in str`
In(pat, str) ==
  \E i \in 0..(Len(str) - Len(pat)) : SubSeq(str, i + 1, i + Len(pat)) = pat

\* urlparse(url).netloc: the whole authority, userinfo@host:port
netloc(url) ==
  (IF Get(url, "userinfo", <<>>) # <<>> THEN url.userinfo \o <<"@">> ELSE <<>>)
    \o url.host
    \o (IF Get(url, "port", <<>>) # <<>> THEN <<":">> \o url.port ELSE <<>>)

\* the characters of a scheme
SchemeChars(scheme) ==
  CASE scheme = "https" -> <<"h", "t", "t", "p", "s">>
    [] scheme = "http" -> <<"h", "t", "t", "p">>
    [] OTHER -> <<scheme>>

\* the URL as the string it is
FullUrl(url) == SchemeChars(url.scheme) \o <<":", "/", "/">> \o netloc(url) \o url.rest

\* the category names of the model in the order of their strings
CategoryOrder == << "docs", "github", "other", "social" >>

\* sorted(list(categories)) for a set of category names
SortedCategories(S) == SelectSeq(CategoryOrder, LAMBDA c : c \in S)

\* the categories one rule of domain_categories or path_categories adds:
\* those of a list, the one of a str, none for a value of another type
CatsOf(cats) ==
  IF HasAttr(cats, "list") THEN { cats.list[i] : i \in 1..Len(cats.list) }
  ELSE IF HasAttr(cats, "str") THEN { cats.str }
  ELSE {}

\* the categories of the rules whose pattern, in lower case, is in str
RuleCategories(rules, str) ==
  UNION { CatsOf(rules[i].cats) :
            i \in { k \in 1..Len(rules) : In(Lower(rules[k].pattern), str) } }

\* a variant of categorize_url that returns at the first rule that matches
CategorizeFirstMatch(config, url) ==
  LET domain == Lower(netloc(url))
      path == Lower(UrlPath(url))
      rules == config.domain_categories \o config.path_categories
      hit(i) == IF i <= Len(config.domain_categories)
                THEN In(Lower(rules[i].pattern), domain)
                ELSE In(Lower(rules[i].pattern), path)
  IN IF \E i \in 1..Len(rules) : hit(i) /\ CatsOf(rules[i].cats) # {}
     THEN SortedCategories(
            CatsOf(rules[CHOOSE i \in 1..Len(rules) :
                           /\ hit(i) /\ CatsOf(rules[i].cats) # {}
                           /\ \A j \in 1..(i - 1) :
                                ~(hit(j) /\ CatsOf(rules[j].cats) # {})].cats))
     ELSE <<"other">>

\* ScrapeConfig.categorize_url: domain patterns against the netloc, path
\* patterns against the path
categorize_url(config, url) ==
  LET domain == Lower(netloc(url))
      path == Lower(UrlPath(url))
      categories == RuleCategories(config.domain_categories, domain)
                    \cup RuleCategories(config.path_categories, path)
  IN IF categories = {} THEN <<"other">> ELSE SortedCategories(categories)

\* ScrapeConfig.categorize_extracted_link: each pattern against the netloc,
\* the whole URL and the path; the categories in the order of the config
categorize_extracted_link(config, url) ==
  LET domain == Lower(netloc(url))
      path == Lower(UrlPath(url))
      full_url == Lower(FullUrl(url))
      matched == SelectSeq(config.link_categories,
                   LAMBDA rule : \E k \in 1..Len(rule.patterns) :
                      LET pattern_lower == Lower(rule.patterns[k])
                      IN \/ In(pattern_lower, domain)
                         \/ In(pattern_lower, full_url)
                         \/ In(pattern_lower, path))
      categories == [i \in 1..Len(matched) |-> matched[i].category]
  IN IF categories # <<>> THEN categories ELSE <<"other">>

\* ScrapeConfig.get_suggestion_type: the first type of the mapping, in its
\* order, with a category among the given ones
get_suggestion_type(config, categories) ==
  LET type_mapping == config.type_mapping
      hit(i) == \E k \in 1..Len(type_mapping[i].category_list) :
                   \E j \in 1..Len(categories) :
                      type_mapping[i].category_list[k] = categories[j]
  IN IF \E i \in 1..Len(type_mapping) : hit(i)
     THEN type_mapping[CHOOSE i \in 1..Len(type_mapping) :
                         hit(i) /\ \A j \in 1..(i - 1) : ~hit(j)].suggestion_type
     ELSE "scrape"

\* PolkadotBountyScraper.categorize_link
categorize_link(url) == categorize_url(ScrapeConfig, url)

----------------------------------------------------------------------------
(* The crawl engine: scraping/scraper.py *)

\* the bounty ids that have a folder under bounties/
BountyFolders == {1, 3}

\* the bounty folders that hold a metadata.yml
MetadataYmls == {1}

\* a lookup that finds a folder for every bounty
FolderAssumed(bounty_id) == TRUE

\* get_bounty_slug: the folder of a bounty, if there is one
get_bounty_slug(bounty_id) == bounty_id \in BountyFolders

\* url_to_filepath: bounties/<slug>/scraped/<domain>/<path>/<name><extension>
url_to_filepath(url, bounty_id, extension) ==
  LET path == StripTrailing(StripLeading(UrlPath(url)))
  IN [bounty_id |-> bounty_id,
      domain |-> url.host,
      path |-> IF path = <<>> THEN <<"index">> ELSE path,
      extension |-> extension]

\* the locals of scrape_recursive at loop entry
RecursiveLocals(job) ==
  [visited |-> {},
   queue |-> << [url |-> job.url, depth |-> 0] >>,
   all_internal |-> {}, all_external |-> {}, all_social |-> {},
   files_created |-> <<>>,
   errors |-> <<>>,
   url_results |-> <<>>]

\* `if normalized_url in visited: continue`
AlreadyVisited(url, visited) == RStrip(url) \in visited

\* the links a successful page at this depth appends to the frontier, walked
\* in the given order
RECURSIVE LinksToQueue(_, _, _, _)
LinksToQueue(order, depth, max_depth, visited) ==
  IF order = <<>> \/ ~(depth < max_depth) THEN <<>>
  ELSE (IF RStrip(Head(order)) \notin visited
        THEN << [url |-> Head(order), depth |-> depth + 1] >> ELSE <<>>)
       \o LinksToQueue(Tail(order), depth, max_depth, visited)

\* One pass of the while loop of scrape_recursive that fetches: the popped
\* URL is not visited yet, sp is what scrape_page returned for it, order the
\* order in which page.internal_links is walked.
RecursiveFetched(L, job, sp, order) ==
  LET url == Head(L.queue).url
      depth == Head(L.queue).depth
      page == sp.page
      visited == L.visited \cup {RStrip(url)}
      popped == [L EXCEPT !.queue = Tail(L.queue), !.visited = visited]
  IN IF page.has_page
     THEN LET filepath == url_to_filepath(url, job.bounty_id, page.extension)
              saved == [popped EXCEPT !.files_created = Append(@, filepath)]
          IN IF page.status_code = 200
             THEN [saved EXCEPT
                     !.url_results = Put(@, url, [status |-> "success",
                                                   error_code |-> None,
                                                   error_message |-> NoMessage,
                                                   handler |-> "static_http"]),
                     !.all_internal = @ \cup page.internal_links,
                     !.all_external = @ \cup page.external_links,
                     !.all_social = @ \cup page.social_links,
                     !.queue = @ \o LinksToQueue(order, depth, job.max_depth, visited)]
             ELSE [saved EXCEPT
                     !.url_results = Put(@, url,
                         [status |-> "failed",
                          error_code |-> OrElse(page.error_code, page.status_code),
                          error_message |-> page.error_message,
                          handler |-> "static_http"]),
                     !.errors = Append(@, [kind |-> "non200", url |-> url,
                                           code |-> page.status_code])]
     ELSE [popped EXCEPT
             !.url_results = Put(@, url, [status |-> "failed",
                                           error_code |-> page.error_code,
                                           error_message |-> page.error_message,
                                           handler |-> "static_http"]),
             !.errors = Append(@, [kind |-> "fetch", url |-> url, code |-> None])]

\* the file the pass writes under bounties/: the body, or the error marker
RecursiveWritten(L, job, sp) ==
  LET url == Head(L.queue).url
  IN IF sp.page.has_page
     THEN url_to_filepath(url, job.bounty_id, sp.page.extension)
     ELSE url_to_filepath(url, job.bounty_id, ".error.yml")

\* the status of a finished traversal, scraper.py:250-257
RecursiveStatus(L) ==
  LET failed_results == { u \in DOMAIN L.url_results : L.url_results[u].status = "failed" }
      response_only_failures ==
        /\ failed_results # {}
        /\ \A u \in failed_results : L.url_results[u].error_code # None
  IN IF L.files_created # <<>>
     THEN (IF L.errors = <<>> \/ response_only_failures THEN "completed" ELSE "partial")
     ELSE (IF response_only_failures \/ L.errors = <<>> THEN "completed" ELSE "failed")

\* the dict scrape_recursive returns
RecursiveResult(L, job) ==
  [status |-> RecursiveStatus(L),
   pages_scraped |-> Len(L.files_created),
   files_created |-> L.files_created,
   visited_urls |-> sorted(L.visited),
   url_results |-> L.url_results,
   outgoing_urls |-> [internal |-> sorted(L.all_internal),
                      external |-> sorted(L.all_external),
                      social |-> sorted(L.all_social)],
   errors |-> L.errors,
   handler |-> Get(Get(L.url_results, job.url, <<>>), "handler", "None")]

\* what scrape_recursive and scrape_single return when the bounty has no folder
RecursiveNoFolder == [status |-> "failed", error |-> "Bounty folder not found"]
SingleNoFolder ==
  [status |-> "failed", error |-> "Bounty folder not found", url_results |-> <<>>]

NoLinks == [internal |-> <<>>, external |-> <<>>, social |-> <<>>]

\* the dict scrape_single returns for a bounty with a folder, given what
\* scrape_page returned for job.url
SingleResult(job, sp) ==
  LET page == sp.page
      filepath == url_to_filepath(job.url, job.bounty_id, page.extension)
  IN IF page.has_page /\ page.status_code = 200
     THEN [status |-> "completed",
           pages_scraped |-> 1,
           files_created |-> <<filepath>>,
           visited_urls |-> <<job.url>>,
           url_results |-> Put(<<>>, job.url, [status |-> "success",
                                                error_code |-> None,
                                                error_message |-> NoMessage,
                                                handler |-> "static_http"]),
           outgoing_urls |-> [internal |-> sorted(page.internal_links),
                              external |-> sorted(page.external_links),
                              social |-> sorted(page.social_links)],
           errors |-> <<>>,
           handler |-> "static_http"]
     ELSE IF page.has_page
     THEN [status |-> "completed",
           pages_scraped |-> 0,
           files_created |-> <<filepath>>,
           visited_urls |-> <<job.url>>,
           url_results |-> Put(<<>>, job.url,
               [status |-> "failed",
                error_code |-> OrElse(page.error_code, page.status_code),
                error_message |-> page.error_message,
                handler |-> "static_http"]),
           outgoing_urls |-> NoLinks,
           errors |-> << [kind |-> "non200", url |-> job.url, code |-> page.status_code] >>,
           handler |-> "static_http"]
     ELSE [status |-> IF page.error_code # None THEN "completed" ELSE "failed",
           pages_scraped |-> 0,
           files_created |-> <<>>,
           visited_urls |-> <<job.url>>,
           url_results |-> Put(<<>>, job.url, [status |-> "failed",
                                                error_code |-> page.error_code,
                                                error_message |-> page.error_message,
                                                handler |-> "static_http"]),
           outgoing_urls |-> NoLinks,
           errors |-> << [kind |-> "fetch", url |-> job.url, code |-> None] >>,
           handler |-> "static_http"]

\* the file scrape_single writes under bounties/
SingleWritten(job, sp) ==
  IF sp.page.has_page
  THEN url_to_filepath(job.url, job.bounty_id, sp.page.extension)
  ELSE url_to_filepath(job.url, job.bounty_id, ".error.yml")

\* scrape_job: the metadata added to the result of either mode
WithMetadata(result, job, now) ==
  [k \in DOMAIN result \cup
         {"bounty_id", "url", "mode", "max_depth", "source", "categories", "type",
          "discovered_at", "scraped_at", "handler"} |->
     CASE k = "bounty_id" -> job.bounty_id
       [] k = "url" -> job.url
       [] k = "mode" -> job.mode
       [] k = "max_depth" -> IF job.mode = "recursive" THEN job.max_depth ELSE None
       [] k = "source" -> job.source
       [] k = "categories" -> job.categories
       [] k = "type" -> job.type
       [] k = "discovered_at" -> job.discovered_at
       [] k = "scraped_at" -> now
       [] k = "handler" ->
            IF Get(result, "handler", "None") # "None" THEN result.handler
            ELSE Get(Get(Get(result, "url_results", <<>>), job.url, <<>>),
                     "handler", "None")
       [] OTHER -> result[k]]

----------------------------------------------------------------------------
(* Data models: scraping/models.py *)

\* the fields of the IndexEntry dataclass, that is the keyword arguments its
\* constructor accepts
IndexEntryFields ==
  { "url", "bounty_id", "scraped_at", "location", "source", "categories", "type",
    "discovered_at", "status", "error_code", "error_message" }

\* IndexEntry(**kwargs): an unknown keyword raises TypeError, __post_init__
\* raises ValueError
IndexEntryAccepts(kwargs) ==
  /\ DOMAIN kwargs \subseteq IndexEntryFields
  /\ kwargs.url.scheme \in {"http", "https"}
  /\ kwargs.bounty_id > 0
  /\ kwargs.status \in {"success", "failed"}

\* IndexEntry.to_dict: the fields whose value is not None
IndexEntryToDict(e) ==
  [k \in { f \in DOMAIN e : ~(\/ f = "error_code" /\ e[f] = None
                              \/ f = "error_message" /\ e[f] = NoMessage
                              \/ f = "discovered_at" /\ e[f] = "None") } |-> e[k]]

\* QueueEntry.from_dict: the fields a record lacks take their defaults
from_dict(data) ==
  [bounty_id |-> data.bounty_id,
   url |-> data.url,
   mode |-> Get(data, "mode", "single"),
   max_depth |-> Get(data, "max_depth", 1),
   source |-> Get(data, "source", "Unknown"),
   categories |-> Get(data, "categories", <<"other">>),
   type |-> Get(data, "type", "scrape"),
   discovered_at |-> Get(data, "discovered_at", "None")]

\* queue_entries_from_dicts
queue_entries_from_dicts(dicts) == [i \in 1..Len(dicts) |-> from_dict(dicts[i])]

\* QueueEntry.__post_init__ on a stored queue record
QueueEntryValid(d) ==
  LET entry == from_dict(d)
  IN /\ entry.url.scheme \in {"http", "https"}
     /\ entry.bounty_id > 0
     /\ entry.max_depth >= 0 /\ entry.max_depth <= 9
     /\ entry.mode \in {"single", "recursive"}

----------------------------------------------------------------------------
(* The stores: scraping/data.py *)

\* the loop without `existing_urls.add(entry['url'])`
AddByUrlStale(store, entries) ==
  store \o SelectSeq(entries,
                     LAMBDA e : ~(\E i \in 1..Len(store) : store[i].url = e.url))

RECURSIVE AddByUrl(_, _)
\* add_to_index, add_to_queue: append the entries whose url is not yet there
AddByUrl(store, entries) ==
  IF entries = <<>> THEN store
  ELSE IF \E i \in 1..Len(store) : store[i].url = Head(entries).url
       THEN AddByUrl(store, Tail(entries))
       ELSE AddByUrl(Append(store, Head(entries)), Tail(entries))

\* an add that extends the list as add_results does
AppendAll(index, entries) == index \o entries

add_to_index(index, entries) == AddByUrl(index, entries)

RECURSIVE add_links(_, _)
\* add_links: append the links whose (url, source_url) is not yet there
add_links(links, new_links) ==
  IF new_links = <<>> THEN links
  ELSE IF \E i \in 1..Len(links) :
            /\ links[i].url = Head(new_links).url
            /\ links[i].source_url = Head(new_links).source_url
       THEN add_links(links, Tail(new_links))
       ELSE add_links(Append(links, Head(new_links)), Tail(new_links))

\* remove_from_queue
remove_from_queue(queue, urls) == SelectSeq(queue, LAMBDA e : e.url \notin urls)

\* add_results
add_results(stored, new_results) == stored \o new_results

----------------------------------------------------------------------------
(* The tail of run(): scraping/scraper.py *)

\* the base location update_index derives from the first file of a result
NoLocation == [bounty_id |-> 0, domain |-> <<>>, dir |-> <<>>]

BaseLocation(result) ==
  LET files == Get(result, "files_created", <<>>)
  IN IF files = <<>> THEN NoLocation
     ELSE [bounty_id |-> files[1].bounty_id,
           domain |-> files[1].domain,
           dir |-> SubSeq(files[1].path, 1, Len(files[1].path) - 1)]

\* the URLs update_index indexes for one result
UrlsToIndex(result) ==
  LET urls == Get(result, "visited_urls", <<result.url>>)
  IN IF urls = <<>> THEN <<result.url>> ELSE urls

\* a variant of the keyword arguments in which every entry, failed or not,
\* carries the base location of its job
IndexEntryKwargsLocated(result, url) ==
  LET url_status == Get(Get(result, "url_results", <<>>), url, <<>>)
      status == IF Get(url_status, "status", "None") = "success" THEN "success" ELSE "failed"
  IN [url |-> url,
      bounty_id |-> result.bounty_id,
      scraped_at |-> Get(result, "scraped_at", 0),
      location |-> BaseLocation(result),
      source |-> Get(result, "source", "Unknown"),
      categories |-> Get(result, "categories", <<>>),
      type |-> Get(result, "type", "scrape"),
      discovered_at |-> Get(result, "discovered_at", "None"),
      status |-> status,
      error_code |-> Get(url_status, "error_code", None),
      error_message |-> Get(url_status, "error_message", NoMessage),
      handler |-> IF Get(url_status, "handler", "None") # "None" THEN url_status.handler
                  ELSE Get(result, "handler", "None")]

\* the keyword arguments update_index passes to IndexEntry for one URL
IndexEntryKwargs(result, url) ==
  LET url_status == Get(Get(result, "url_results", <<>>), url, <<>>)
      status == IF Get(url_status, "status", "None") = "success" THEN "success" ELSE "failed"
  IN [url |-> url,
      bounty_id |-> result.bounty_id,
      scraped_at |-> Get(result, "scraped_at", 0),
      location |-> IF status = "success" THEN BaseLocation(result) ELSE NoLocation,
      source |-> Get(result, "source", "Unknown"),
      categories |-> Get(result, "categories", <<>>),
      type |-> Get(result, "type", "scrape"),
      discovered_at |-> Get(result, "discovered_at", "None"),
      status |-> status,
      error_code |-> Get(url_status, "error_code", None),
      error_message |-> Get(url_status, "error_message", NoMessage),
      handler |-> IF Get(url_status, "handler", "None") # "None" THEN url_status.handler
                  ELSE Get(result, "handler", "None")]

RECURSIVE UpdateIndexKwargs(_)
\* the constructor calls of update_index, in order
UpdateIndexKwargs(results) ==
  IF results = <<>> THEN <<>>
  ELSE [i \in 1..Len(UrlsToIndex(Head(results))) |->
          IndexEntryKwargs(Head(results), UrlsToIndex(Head(results))[i])]
       \o UpdateIndexKwargs(Tail(results))

\* update_index raises when a constructor call does
UpdateIndexRaises(results) ==
  \E i \in 1..Len(UpdateIndexKwargs(results)) :
     ~IndexEntryAccepts(UpdateIndexKwargs(results)[i])

\* the index update_index leaves when it does not raise
update_index(index, results) ==
  LET kw == UpdateIndexKwargs(results)
  IN IF kw = <<>> THEN index
     ELSE add_to_index(index, [i \in 1..Len(kw) |-> IndexEntryToDict(kw[i])])

\* the DiscoveredLink records save_links builds for one result
LinksOfResult(result) ==
  IF result.status \notin {"completed", "partial"} THEN <<>>
  ELSE LET outgoing == Get(result, "outgoing_urls", NoLinks)
           all_links == { outgoing.internal[i] : i \in 1..Len(outgoing.internal) }
                        \cup { outgoing.external[i] : i \in 1..Len(outgoing.external) }
                        \cup { outgoing.social[i] : i \in 1..Len(outgoing.social) }
           walk == sorted(all_links)
       IN [i \in 1..Len(walk) |->
             [url |-> walk[i],
              source_url |-> result.url,
              bounty_id |-> result.bounty_id,
              categories |-> categorize_link(walk[i]),
              discovered_at |-> Get(result, "scraped_at", 0)]]

RECURSIVE NewLinks(_)
NewLinks(results) ==
  IF results = <<>> THEN <<>> ELSE LinksOfResult(Head(results)) \o NewLinks(Tail(results))

\* save_links
save_links(links, results) ==
  IF NewLinks(results) = <<>> THEN links ELSE add_links(links, NewLinks(results))

\* clear_queue: the jobs that ended completed or partial leave the queue
clear_queue(queue, results) ==
  LET successful_urls ==
        { results[i].url : i \in { j \in 1..Len(results) :
                                     results[j].status \in {"completed", "partial"} } }
  IN IF successful_urls = {} THEN queue ELSE remove_from_queue(queue, successful_urls)

----------------------------------------------------------------------------
(* State *)

VARIABLES
  queue_file,     \* scrape-queue.yml: the sequence of queue records
  index_file,     \* scrape-index.yml: the sequence of index records
  links_file,     \* scrape-links.yml: the sequence of discovered links
  results_file,   \* scrape-results.yml: the sequence of job results
  scraped,        \* the files written under bounties/<slug>/scraped/
  pc,             \* where the scraper process is: idle, jobs, crawl, done, crashed
  raised,         \* the exception that ended the process, "None" if none
  runs,           \* the number of times run() was started
  jobs,           \* run(): the jobs loaded from the queue
  job_idx,        \* run(): the position of the for loop over jobs
  results,        \* run(): the results collected so far
  locals,         \* scrape_recursive: its local variables
  fetch_log,      \* the requests sent for the current job, in order
  timeline,       \* the requests and the sleeps of the current run, in order
  suggestions_file, \* scrape-suggestions.yml: the sequence of suggestions
  metadata_file,  \* bounties/*/metadata.yml: the associated entries they hold
  registry,       \* HandlerRegistry._registry: the registered entries, in order
  last_call,      \* the last call of a tool or of the ScrapeData API, with the
                  \* stores as they were before it and what it returned
  calls           \* the number of such calls

vars ==
  << queue_file, index_file, links_file, results_file, scraped, pc, raised, runs,
     jobs, job_idx, results, locals, fetch_log, timeline, suggestions_file,
     metadata_file, registry, last_call, calls >>

\* what the tools other than the scraper work on, and what only the scraper does
toolVars == << suggestions_file, metadata_file, registry, last_call, calls >>
scraperVars ==
  << pc, raised, runs, jobs, job_idx, results, locals, fetch_log, timeline >>

\* largest number of entries of the initial queue
MaxJobs == 2

Bounties == {1, 2}

QueueRecord(b, u, m, d) ==
  [bounty_id |-> b, url |-> u, mode |-> m, max_depth |-> d, source |-> "Unknown",
   categories |-> <<"other">>, type |-> "scrape", discovered_at |-> "None"]

\* the queue records of the model: single-mode records carry the default
\* max_depth of 1
QueueRecords ==
  { QueueRecord(b, u, "recursive", d) : b \in Bounties, u \in Seeds, d \in 0..MaxDepth }
  \cup { QueueRecord(b, u, "single", 1) : b \in Bounties, u \in Seeds }

\* the queues the scraper may find: no URL twice
InitQueues ==
  { q \in UNION { [1..n -> QueueRecords] : n \in 0..MaxJobs } :
      \A i, j \in 1..Len(q) : i # j => q[i].url # q[j].url }

\* stored queue records QueueEntry.__post_init__ rejects: a URL without a
\* scheme, a bounty_id of 0, a max_depth of 10
MalformedRecords ==
  { QueueRecord(1, Url("", DocsHost, <<"/", "guide">>), "single", 1),
    QueueRecord(0, SeedSlash, "single", 1),
    QueueRecord(1, SeedGuide, "recursive", 10) }

\* the queues of a file that was edited by hand: valid records beside
\* malformed ones, no URL twice
LoadQueues ==
  { q \in UNION { [1..n -> MalformedRecords
                            \cup { QueueRecord(1, SeedSlash, "recursive", 1),
                                   QueueRecord(1, SeedGuide, "single", 1) }] :
                    n \in 0..MaxJobs } :
      \A i, j \in 1..Len(q) : i # j => q[i].url # q[j].url }

\* HandlerRegistry.__init__: the wildcard entry of the static handler
DefaultRegistry == << [patterns |-> << <<"*">> >>, handler |-> "StaticHttpScraper"] >>

\* the stores as a tool finds them
Snapshot(index, queue, suggestions, links, res) ==
  [index |-> index, queue |-> queue, suggestions |-> suggestions, links |-> links,
   results |-> res]

\* no tool was called yet
NoCall ==
  [op |-> "none", before |-> Snapshot(<<>>, <<>>, <<>>, <<>>, <<>>), batch |-> <<>>,
   out |-> <<>>]

NoLocals ==
  [visited |-> {}, queue |-> <<>>, all_internal |-> {}, all_external |-> {},
   all_social |-> {}, files_created |-> <<>>, errors |-> <<>>, url_results |-> <<>>]

Init ==
  /\ queue_file \in InitQueues
  /\ index_file = <<>>
  /\ links_file = <<>>
  /\ results_file = <<>>
  /\ scraped = {}
  /\ pc = "idle"
  /\ raised = "None"
  /\ runs = 0
  /\ jobs = <<>>
  /\ job_idx = 0
  /\ results = <<>>
  /\ locals = NoLocals
  /\ fetch_log = <<>>
  /\ timeline = <<>>
  /\ suggestions_file = <<>>
  /\ registry = DefaultRegistry
  /\ metadata_file = {}
  /\ last_call = NoCall
  /\ calls = 0

\* the state before a run whose queue file may hold malformed records
InitLoad ==
  /\ queue_file \in LoadQueues
  /\ index_file = <<>>
  /\ links_file = <<>>
  /\ results_file = <<>>
  /\ scraped = {}
  /\ pc = "idle"
  /\ raised = "None"
  /\ runs = 0
  /\ jobs = <<>>
  /\ job_idx = 0
  /\ results = <<>>
  /\ locals = NoLocals
  /\ fetch_log = <<>>
  /\ timeline = <<>>
  /\ suggestions_file = <<>>
  /\ registry = DefaultRegistry
  /\ metadata_file = {}
  /\ last_call = NoCall
  /\ calls = 0

stores == << queue_file, index_file, links_file, results_file >>

\* the job the for loop of run() is at
Job == jobs[job_idx]

LogEntry(job, url, depth, resp, sp) ==
  [job |-> job, url |-> url, depth |-> depth, resp |-> resp, raised |-> sp.raised]

----------------------------------------------------------------------------
(* Actions *)

\* run() is started: load_queue; an empty queue ends the run at once
StartRun ==
  /\ pc \in {"idle", "done", "crashed"}
  /\ runs < MaxRuns
  /\ runs' = runs + 1
  /\ results' = <<>>
  /\ locals' = NoLocals
  /\ fetch_log' = <<>>
  /\ timeline' = <<>>
  /\ IF \E i \in 1..Len(queue_file) : ~QueueEntryValid(queue_file[i])
     THEN /\ pc' = "crashed"
          /\ raised' = "ValueError"
          /\ jobs' = <<>>
          /\ job_idx' = 0
     ELSE /\ raised' = "None"
          /\ jobs' = queue_entries_from_dicts(queue_file)
          /\ job_idx' = IF queue_file = <<>> THEN 0 ELSE 1
          /\ pc' = IF queue_file = <<>> THEN "done" ELSE "jobs"
  /\ UNCHANGED << stores, scraped >>
  /\ UNCHANGED toolVars

\* scrape_job on a recursive job, up to the while loop of scrape_recursive;
\* a bounty without a folder ends the job at once
BeginRecursive ==
  /\ pc = "jobs"
  /\ job_idx <= Len(jobs)
  /\ Job.mode = "recursive"
  /\ fetch_log' = <<>>
  /\ IF ~get_bounty_slug(Job.bounty_id)
     THEN /\ results' = Append(results, WithMetadata(RecursiveNoFolder, Job, runs))
          /\ job_idx' = job_idx + 1
          /\ locals' = NoLocals
          /\ pc' = "jobs"
     ELSE /\ locals' = RecursiveLocals(Job)
          /\ pc' = "crawl"
          /\ UNCHANGED << results, job_idx >>
  /\ UNCHANGED << stores, scraped, raised, runs, jobs, timeline >>
  /\ UNCHANGED toolVars

\* one pass of the while loop of scrape_recursive
CrawlStep ==
  /\ pc = "crawl"
  /\ locals.queue # <<>>
  /\ LET url == Head(locals.queue).url
         depth == Head(locals.queue).depth
     IN IF AlreadyVisited(url, locals.visited)
        THEN /\ locals' = [locals EXCEPT !.queue = Tail(@)]
             /\ UNCHANGED << scraped, pc, raised, fetch_log, timeline >>
        ELSE \E resp \in Responses :
               LET sp == scrape_page(url, Job.url, resp)
               IN /\ fetch_log' = Append(fetch_log, LogEntry(job_idx, url, depth, resp, sp))
                  /\ IF sp.raised
                     THEN /\ locals' = [locals EXCEPT !.queue = Tail(@),
                                                      !.visited = @ \cup {RStrip(url)}]
                          /\ pc' = "crashed"
                          /\ raised' = "AttributeError"
                          /\ timeline' = Append(timeline, "request")
                          /\ UNCHANGED scraped
                     ELSE /\ \E order \in Orders(IF sp.page.has_page
                                                 THEN sp.page.internal_links ELSE {}) :
                                locals' = RecursiveFetched(locals, Job, sp, order)
                          /\ scraped' = scraped \cup {RecursiveWritten(locals, Job, sp)}
                          /\ timeline' = timeline \o <<"request", "sleep">>
                          /\ UNCHANGED << pc, raised >>
  /\ UNCHANGED << stores, runs, jobs, job_idx, results >>
  /\ UNCHANGED toolVars

\* the frontier is empty: scrape_recursive returns and scrape_job adds the
\* metadata
EndRecursive ==
  /\ pc = "crawl"
  /\ locals.queue = <<>>
  /\ results' = Append(results, WithMetadata(RecursiveResult(locals, Job), Job, runs))
  /\ job_idx' = job_idx + 1
  /\ pc' = "jobs"
  /\ UNCHANGED << stores, scraped, raised, runs, jobs, locals, fetch_log, timeline >>
  /\ UNCHANGED toolVars

\* scrape_job on a single job: scrape_single
ScrapeSingle ==
  /\ pc = "jobs"
  /\ job_idx <= Len(jobs)
  /\ Job.mode = "single"
  /\ locals' = NoLocals
  /\ IF ~get_bounty_slug(Job.bounty_id)
     THEN /\ results' = Append(results, WithMetadata(SingleNoFolder, Job, runs))
          /\ job_idx' = job_idx + 1
          /\ fetch_log' = <<>>
          /\ UNCHANGED << scraped, pc, raised, timeline >>
     ELSE \E resp \in Responses :
            LET sp == scrape_page(Job.url, Job.url, resp)
            IN /\ fetch_log' = << LogEntry(job_idx, Job.url, 0, resp, sp) >>
               /\ timeline' = Append(timeline, "request")
               /\ IF sp.raised
                  THEN /\ pc' = "crashed"
                       /\ raised' = "AttributeError"
                       /\ UNCHANGED << results, job_idx, scraped >>
                  ELSE /\ results' = Append(results,
                                            WithMetadata(SingleResult(Job, sp), Job, runs))
                       /\ job_idx' = job_idx + 1
                       /\ scraped' = scraped \cup {SingleWritten(Job, sp)}
                       /\ UNCHANGED << pc, raised >>
  /\ UNCHANGED << stores, runs, jobs >>
  /\ UNCHANGED toolVars

\* the rest of run() after the for loop: save_results, update_index,
\* save_links, clear_queue.  An exception in one of them ends the process
\* with the earlier writes done and the later ones not.
FinishRun ==
  /\ pc = "jobs"
  /\ job_idx > Len(jobs)
  /\ results_file' = add_results(results_file, results)
  /\ IF UpdateIndexRaises(results)
     THEN /\ pc' = "crashed"
          /\ raised' = "TypeError"
          /\ UNCHANGED << index_file, links_file, queue_file >>
     ELSE /\ index_file' = update_index(index_file, results)
          /\ links_file' = save_links(links_file, results)
          /\ queue_file' = clear_queue(queue_file, results)
          /\ pc' = "done"
          /\ UNCHANGED raised
  /\ UNCHANGED << scraped, runs, jobs, job_idx, results, locals, fetch_log, timeline >>
  /\ UNCHANGED toolVars

\* the process is interrupted (Ctrl-C, kill) while run() is in its for loop,
\* between two jobs or inside a traversal: run() has no try/finally, so
\* nothing after the loop is executed
Abort ==
  /\ pc \in {"jobs", "crawl"}
  /\ pc' = "crashed"
  /\ raised' = "KeyboardInterrupt"
  /\ UNCHANGED << stores, scraped, runs, jobs, job_idx, results, locals, fetch_log,
                  timeline >>
  /\ UNCHANGED toolVars

Next ==
  \/ StartRun
  \/ BeginRecursive
  \/ CrawlStep
  \/ EndRecursive
  \/ ScrapeSingle
  \/ FinishRun
  \/ Abort

Spec == Init /\ [][Next]_vars

\* the scraper on a queue file that may hold malformed records
SpecLoad == InitLoad /\ [][Next]_vars

----------------------------------------------------------------------------
(* The ScrapeData API and the tools beside the scraper: scraping/data.py,    *)
(* scraping/suggest.py, scraping/discover.py, scraping/review.py             *)

\* largest number of entries passed to one call
MaxBatch == 2
\* number of calls of tools and of the API in one behaviour
MaxCalls == 3

GuideSlash == Url("https", DocsHost, <<"/", "guide", "/">>)
XFoo == Url("https", XHost, <<"/", "foo">>)
AdsBanner == Url("https", AdsHost, <<"/", "banner">>)

\* the URLs the callers pass
ToolUrls == {SeedGuide, GuideSlash, XFoo}

UrlBatches == UNION { [1..n -> ToolUrls] : n \in 0..MaxBatch }

\* the dict of an IndexEntry, of a QueueEntry and of a Suggestion a caller
\* passes for a URL; the caller's k-th entry carries bounty id k
IndexRecord(u, k) ==
  [url |-> u, bounty_id |-> k, scraped_at |-> 0, location |-> NoLocation,
   source |-> "Unknown", categories |-> <<"other">>, type |-> "scrape",
   status |-> "success"]

SuggestionRecord(u, k) ==
  [bounty_id |-> k, url |-> u, source |-> "Unknown", categories |-> <<"other">>,
   type |-> "scrape", mode |-> "single", max_depth |-> 1, discovered_at |-> 0]

\* the dict of a DiscoveredLink
LinkRecord(u, src, k) ==
  [url |-> u, source_url |-> src, bounty_id |-> k, categories |-> categorize_link(u),
   discovered_at |-> 0]

LinkKeys == {XFoo, GuideSlash} \X {SeedSlash, SeedGuide}

LinkBatches == UNION { [1..n -> LinkKeys] : n \in 0..MaxBatch }

\* add_to_queue and add_suggestions: the loop of add_to_index on their files
add_to_queue(queue, entries) == AddByUrl(queue, entries)

add_suggestions(suggestions, new_suggestions) == AddByUrl(suggestions, new_suggestions)

\* a reset that leaves the suggestions file alone
ResetKeepsSuggestions(snap, include_queue) ==
  [index |-> <<>>, links |-> <<>>, results |-> <<>>, suggestions |-> snap.suggestions,
   queue |-> IF include_queue THEN <<>> ELSE snap.queue]

\* a reset that clears the queue whatever include_queue is
ResetClearsQueue(snap, include_queue) ==
  [index |-> <<>>, links |-> <<>>, results |-> <<>>, suggestions |-> <<>>,
   queue |-> <<>>]

\* CleanupTool.reset_all once the reset is confirmed: the index, results,
\* links and suggestions files are rewritten empty
cleanup_reset_all(snap) ==
  [index |-> <<>>, results |-> <<>>, links |-> <<>>, suggestions |-> <<>>,
   queue |-> snap.queue]

\* reset_all on the five files
reset_all(snap, include_queue) ==
  [index |-> <<>>, links |-> <<>>, results |-> <<>>, suggestions |-> <<>>,
   queue |-> IF include_queue THEN <<>> ELSE snap.queue]

\* is_indexed, is_queued, is_suggested
is_indexed(index, url) == \E i \in 1..Len(index) : index[i].url = url
is_queued(queue, url) == \E i \in 1..Len(queue) : queue[i].url = url
is_suggested(suggestions, url) == \E i \in 1..Len(suggestions) : suggestions[i].url = url

\* is_url_known
is_url_known(snap, url) ==
  is_indexed(snap.index, url) \/ is_queued(snap.queue, url)
    \/ is_suggested(snap.suggestions, url)

\* urls.update(entry['url'] for entry in ...)
RECURSIVE UpdateUrls(_, _)
UpdateUrls(urls, entries) ==
  IF entries = <<>> THEN urls ELSE UpdateUrls(urls \cup {Head(entries).url}, Tail(entries))

\* the union without the suggestions
KnownWithoutSuggestions(snap) == UpdateUrls(UpdateUrls({}, snap.index), snap.queue)

\* get_all_known_urls
get_all_known_urls(snap) ==
  UpdateUrls(UpdateUrls(UpdateUrls({}, snap.index), snap.queue), snap.suggestions)

\* the stores as the call about to be made finds them
Before == Snapshot(index_file, queue_file, suggestions_file, links_file, results_file)

Call(op, batch, out) == [op |-> op, before |-> Before, batch |-> batch, out |-> out]

\* what a scraper run that processed one single job (200, no links) leaves: the
\* body on disk, the result in the results file, and the job still queued,
\* update_index having raised
LeftJob == QueueRecord(1, SeedGuide, "single", 1)
LeftPage ==
  scrape_page(SeedGuide, SeedGuide,
              [kind |-> "response", status_code |-> 200, text |-> FALSE, hrefs |-> {}])
LeftByScraper ==
  [queue |-> <<LeftJob>>,
   results |-> << WithMetadata(SingleResult(LeftJob, LeftPage), LeftJob, 1) >>,
   scraped |-> {SingleWritten(LeftJob, LeftPage)}]

Untouched == [queue |-> <<>>, results |-> <<>>, scraped |-> {}]

InitTools ==
  /\ \E left \in {Untouched, LeftByScraper} :
        /\ queue_file = left.queue
        /\ results_file = left.results
        /\ scraped = left.scraped
  /\ index_file = <<>>
  /\ links_file = <<>>
  /\ suggestions_file = <<>>
  /\ pc = "idle"
  /\ raised = "None"
  /\ runs = 0
  /\ jobs = <<>>
  /\ job_idx = 0
  /\ results = <<>>
  /\ locals = NoLocals
  /\ fetch_log = <<>>
  /\ timeline = <<>>
  /\ registry = DefaultRegistry
  /\ metadata_file = {}
  /\ last_call = NoCall
  /\ calls = 0

\* a caller of ScrapeData.add_to_index
AddToIndex ==
  /\ calls < MaxCalls
  /\ \E b \in UrlBatches :
       LET entries == [k \in 1..Len(b) |-> IndexRecord(b[k], k)]
       IN /\ index_file' = add_to_index(index_file, entries)
          /\ last_call' = Call("add_to_index", entries, <<>>)
  /\ calls' = calls + 1
  /\ UNCHANGED << queue_file, links_file, results_file, suggestions_file, scraped,
                  registry, metadata_file, scraperVars >>

\* a caller of ScrapeData.add_to_queue
AddToQueue ==
  /\ calls < MaxCalls
  /\ \E b \in UrlBatches :
       LET entries == [k \in 1..Len(b) |-> QueueRecord(k, b[k], "single", 1)]
       IN /\ queue_file' = add_to_queue(queue_file, entries)
          /\ last_call' = Call("add_to_queue", entries, <<>>)
  /\ calls' = calls + 1
  /\ UNCHANGED << index_file, links_file, results_file, suggestions_file, scraped,
                  registry, metadata_file, scraperVars >>

\* a caller of ScrapeData.add_suggestions
AddSuggestions ==
  /\ calls < MaxCalls
  /\ \E b \in UrlBatches :
       LET entries == [k \in 1..Len(b) |-> SuggestionRecord(b[k], k)]
       IN /\ suggestions_file' = add_suggestions(suggestions_file, entries)
          /\ last_call' = Call("add_suggestions", entries, <<>>)
  /\ calls' = calls + 1
  /\ UNCHANGED << index_file, queue_file, links_file, results_file, scraped,
                  registry, metadata_file, scraperVars >>

\* a caller of ScrapeData.add_links
AddLinks ==
  /\ calls < MaxCalls
  /\ \E b \in LinkBatches :
       LET entries == [k \in 1..Len(b) |-> LinkRecord(b[k][1], b[k][2], k)]
       IN /\ links_file' = add_links(links_file, entries)
          /\ last_call' = Call("add_links", entries, <<>>)
  /\ calls' = calls + 1
  /\ UNCHANGED << index_file, queue_file, results_file, suggestions_file, scraped,
                  registry, metadata_file, scraperVars >>

\* a caller of ScrapeData.reset_all
ResetAll ==
  /\ calls < MaxCalls
  /\ \E include_queue \in BOOLEAN :
       LET after == reset_all(Before, include_queue)
       IN /\ index_file' = after.index
          /\ links_file' = after.links
          /\ results_file' = after.results
          /\ suggestions_file' = after.suggestions
          /\ queue_file' = after.queue
          /\ last_call' = Call("reset_all", <<include_queue>>, <<>>)
  /\ calls' = calls + 1
  /\ UNCHANGED << scraped, registry, metadata_file, scraperVars >>

\* cleanup.py --reset-all: CleanupTool.reset_all, the operator answering the
\* question it asks
CleanupResetAll ==
  /\ calls < MaxCalls
  /\ \E response \in {"yes", "no"} :
       LET after == IF response # "yes" THEN Before ELSE cleanup_reset_all(Before)
       IN /\ index_file' = after.index
          /\ results_file' = after.results
          /\ links_file' = after.links
          /\ suggestions_file' = after.suggestions
          /\ queue_file' = after.queue
          /\ last_call' = Call("cleanup_reset_all", <<response>>, <<>>)
  /\ calls' = calls + 1
  /\ UNCHANGED << scraped, registry, metadata_file, scraperVars >>

\* a caller of ScrapeData.get_all_known_urls
GetAllKnownUrls ==
  /\ calls < MaxCalls
  /\ last_call' = Call("get_all_known_urls", <<>>, get_all_known_urls(Before))
  /\ calls' = calls + 1
  /\ UNCHANGED << stores, suggestions_file, scraped, registry, metadata_file, scraperVars >>

\* a caller of ScrapeData.is_url_known
IsUrlKnown ==
  /\ calls < MaxCalls
  /\ \E u \in ToolUrls : last_call' = Call("is_url_known", <<u>>, is_url_known(Before, u))
  /\ calls' = calls + 1
  /\ UNCHANGED << stores, suggestions_file, scraped, registry, metadata_file, scraperVars >>

NextStores ==
  \/ AddToIndex
  \/ AddToQueue
  \/ AddSuggestions
  \/ AddLinks
  \/ ResetAll
  \/ CleanupResetAll
  \/ GetAllKnownUrls
  \/ IsUrlKnown

SpecStores == InitTools /\ [][NextStores]_vars

----------------------------------------------------------------------------
(* The suggestion generators: scraping/suggest.py, scraping/discover.py *)

\* number of link fields the metadata files hold in one generation
MaxMeta == 2

\* A link field of a metadata.yml: the bounty of the folder, the name of the
\* field under links (or contact.applicationForm) and its URL.
MetaItem(b, f, u) == [bounty_id |-> b, field |-> f, url |-> u]

MetaItems ==
  { MetaItem(b, "website", u) : b \in Bounties, u \in {SeedGuide, XFoo} }
  \cup { MetaItem(1, "applicationForm", SeedGuide),
         MetaItem(1, "forum", XFoo),
         MetaItem(1, "website", AdsBanner) }

\* what the metadata files hold, in the order generate_from_metadata walks
\* them: folders sorted by name, the fields of a file in file order
Metadata ==
  { m \in UNION { [1..n -> MetaItems] : n \in 0..MaxMeta } :
      \A i \in 1..(Len(m) - 1) :
         /\ m[i].bounty_id <= m[i + 1].bounty_id
         /\ ~(m[i].bounty_id = m[i + 1].bounty_id /\ m[i].field = m[i + 1].field) }

\* the processed URLs without those of the index
ProcessedWithoutIndex(snap) ==
  UpdateUrls(UpdateUrls({}, snap.queue), snap.suggestions)
    \cup ScrapeConfig.ignored_urls

\* SuggestionGenerator.get_all_processed_urls
get_all_processed_urls(snap) ==
  UpdateUrls(UpdateUrls(UpdateUrls({}, snap.queue), snap.index), snap.suggestions)
    \cup ScrapeConfig.ignored_urls

\* ScrapeConfig.get_default_mode_settings
get_default_mode_settings ==
  IF ScrapeConfig.default_mode = "recursive"
  THEN [mode |-> "recursive", max_depth |-> 2]
  ELSE [mode |-> "single", max_depth |-> 1]

\* the fields of links that extract_urls_from_metadata skips
ExcludedFields == {"subsquare", "polkassembly", "forum", "spreadsheet"}

\* the suggestion extract_urls_from_metadata builds for one field
MetaSuggestion(item) ==
  [bounty_id |-> item.bounty_id,
   url |-> item.url,
   mode |-> get_default_mode_settings.mode,
   max_depth |-> get_default_mode_settings.max_depth,
   source |-> IF item.field = "applicationForm"
              THEN "metadata.contact.applicationForm" ELSE "metadata.links.field",
   categories |-> categorize_url(ScrapeConfig, item.url),
   type |-> get_suggestion_type(ScrapeConfig, categorize_url(ScrapeConfig, item.url)),
   discovered_at |-> 0]

\* extract_urls_from_metadata over the files, in walk order
RECURSIVE extract_urls_from_metadata(_)
extract_urls_from_metadata(items) ==
  IF items = <<>> THEN <<>>
  ELSE (IF /\ Head(items).field \notin ExcludedFields
           /\ Head(items).url.scheme \in {"http", "https"}
           /\ ~is_ignored(Head(items).url)
        THEN << MetaSuggestion(Head(items)) >> ELSE <<>>)
       \o extract_urls_from_metadata(Tail(items))

\* generate_from_metadata: the extracted suggestions whose URL is not processed
generate_from_metadata(snap, items) ==
  SelectSeq(extract_urls_from_metadata(items),
            LAMBDA sg : sg.url \notin get_all_processed_urls(snap))

\* the suggestion generate_from_links builds for one discovered link
LinkSuggestion(link) ==
  LET categories == IF Get(link, "categories", <<>>) # <<>> THEN link.categories
                    ELSE categorize_url(ScrapeConfig, link.url)
  IN [url |-> link.url,
      bounty_id |-> link.bounty_id,
      mode |-> get_default_mode_settings.mode,
      max_depth |-> get_default_mode_settings.max_depth,
      source |-> "discovered from source_url",
      categories |-> categories,
      discovered_at |-> Get(link, "discovered_at", 0),
      type |-> get_suggestion_type(ScrapeConfig, categories)]

\* the loop of generate_from_links over the discovered links
RECURSIVE LinksLoop(_, _, _)
LinksLoop(links, processed_urls, seen_urls) ==
  IF links = <<>> THEN <<>>
  ELSE LET url == Head(links).url
       IN IF url \in seen_urls \/ url \in processed_urls \/ is_ignored(url)
          THEN LinksLoop(Tail(links), processed_urls, seen_urls)
          ELSE << LinkSuggestion(Head(links)) >>
               \o LinksLoop(Tail(links), processed_urls, seen_urls \cup {url})

\* generate_from_links
generate_from_links(snap) ==
  IF snap.links = <<>> THEN <<>>
  ELSE LinksLoop(snap.links, get_all_processed_urls(snap), {})

\* SuggestionGenerator.save_suggestions: existing_urls is computed once,
\* before the loop
save_suggestions(existing, new_suggestions) ==
  IF new_suggestions = <<>> THEN existing
  ELSE existing \o SelectSeq(new_suggestions,
                             LAMBDA sg : sg.url \notin UpdateUrls({}, existing))

\* scrape-ignore.yml: the patterns LinkDiscoverer loads
IgnoreFile == { Url("", AdsHost, <<>>) }

\* LinkDiscoverer.is_ignored: the URL itself, or a pattern contained in its host
discover_is_ignored(url, ignored_patterns) ==
  \E pattern \in ignored_patterns :
     \/ url = pattern
     \/ RStrip(url) = RStrip(pattern)
     \/ pattern.scheme = "" /\ pattern.rest = <<>> /\ HostContains(url.host, pattern.host)

\* the type discover_new_urls gives to a link of these categories
DiscoveredType(categories) ==
  LET social_categories == {"social", "discord", "telegram", "matrix"}
      associated_categories == {"github"}
      given == { categories[i] : i \in 1..Len(categories) }
  IN IF given \cap social_categories # {} THEN "social"
     ELSE IF given \cap associated_categories # {} THEN "associated_url"
     ELSE "scrape"

\* the suggestion discover_new_urls builds for one discovered link
DiscoveredSuggestion(link) ==
  [url |-> link.url,
   bounty_id |-> link.bounty_id,
   mode |-> Get(ScrapeConfig, "default_mode", "single"),
   max_depth |-> IF Get(ScrapeConfig, "default_mode", "single") = "recursive" THEN 2 ELSE 1,
   source |-> "discovered from source_url",
   categories |-> Get(link, "categories", <<"other">>),
   discovered_at |-> Get(link, "discovered_at", 0),
   type |-> DiscoveredType(Get(link, "categories", <<"other">>))]

\* the loop of discover_new_urls
RECURSIVE DiscoverLoop(_, _, _)
DiscoverLoop(links, snap, seen_urls) ==
  IF links = <<>> THEN <<>>
  ELSE LET url == Head(links).url
       IN IF \/ url \in seen_urls
             \/ url \in UpdateUrls({}, snap.index)
             \/ url \in UpdateUrls({}, snap.queue)
             \/ url \in UpdateUrls({}, snap.suggestions)
             \/ discover_is_ignored(url, IgnoreFile)
          THEN DiscoverLoop(Tail(links), snap, seen_urls)
          ELSE << DiscoveredSuggestion(Head(links)) >>
               \o DiscoverLoop(Tail(links), snap, seen_urls \cup {url})

\* LinkDiscoverer.discover_new_urls
discover_new_urls(snap) == DiscoverLoop(snap.links, snap, {})

\* LinkDiscoverer.save_suggestions
discover_save_suggestions(existing, new_suggestions) == existing \o new_suggestions

----------------------------------------------------------------------------
(* The review session: scraping/review.py *)

\* scrape-config.yml, auto_accept: the rules of the modelled configuration
AutoAcceptRules == << [domain |-> XHost, mode |-> "single"] >>

\* the URLs a reviewer types when modifying a suggestion
ModifyUrls == {SeedGuide, GuideSlash}

\* what the reviewer answers for one suggestion: Accept, Modify (with the new
\* URL), Ignore, Skip or Quit
Choices ==
  { [key |-> k, url |-> SeedGuide] : k \in {"A", "I", "S", "Q"} }
  \cup { [key |-> "M", url |-> u] : u \in ModifyUrls }

\* url.replace('https://', 'http://') and back
SwapScheme(u) ==
  [u EXCEPT !.scheme = IF @ = "https" THEN "http" ELSE IF @ = "http" THEN "https" ELSE @]

\* load_scraped_urls: the indexed URLs and their variants
load_scraped_urls(index) ==
  UNION { { index[i].url, RStrip(index[i].url),
            SwapScheme(index[i].url), RStrip(SwapScheme(index[i].url)) } :
          i \in 1..Len(index) }

is_already_scraped(url, scraped_urls) ==
  url \in scraped_urls \/ RStrip(url) \in scraped_urls

is_unscrapable_social(categories) ==
  \E i \in 1..Len(categories) : categories[i] \in {"social", "discord", "telegram", "matrix"}

is_associated_url(categories) ==
  \E i \in 1..Len(categories) : categories[i] = "github"

\* the type the review loops work with
SuggestionType(sg) ==
  IF Get(sg, "type", "scrape") # "scrape" THEN sg.type
  ELSE IF is_unscrapable_social(Get(sg, "categories", <<>>)) THEN "social"
  ELSE IF is_associated_url(Get(sg, "categories", <<>>)) THEN "associated_url"
  ELSE "scrape"

\* domain == rule_domain or domain.endswith('.' + rule_domain), on labels
DomainMatch(host, rule_domain) ==
  /\ Len(rule_domain) <= Len(host)
  /\ SubSeq(host, Len(host) - Len(rule_domain) + 1, Len(host)) = rule_domain

\* check_auto_accept: the 1-based position of the first matching rule, 0 if
\* none matches
check_auto_accept(url) ==
  IF \E i \in 1..Len(AutoAcceptRules) : DomainMatch(url.host, AutoAcceptRules[i].domain)
  THEN CHOOSE i \in 1..Len(AutoAcceptRules) :
         /\ DomainMatch(url.host, AutoAcceptRules[i].domain)
         /\ \A j \in 1..(i - 1) : ~DomainMatch(url.host, AutoAcceptRules[j].domain)
  ELSE 0

\* the suggestion as the first pass accepts it: mode and depth of the rule
AutoAccepted(sg) ==
  LET rule == AutoAcceptRules[check_auto_accept(sg.url)]
      mode == Get(rule, "mode", "single")
  IN [sg EXCEPT !.mode = mode,
                !.max_depth = Get(rule, "max_depth", IF mode = "recursive" THEN 2 ELSE 1)]

IsAutoAccepted(sg) == SuggestionType(sg) = "scrape" /\ check_auto_accept(sg.url) # 0

\* modify_suggestion: the reviewer types a URL, a mode and a depth, or
\* leaves them as they are, and confirms or not; None when not confirmed
modify_suggestion(sg, c) ==
  LET mode == Get(c, "mode", sg.mode)
  IN IF ~Get(c, "confirm", TRUE) THEN None
     ELSE [k \in DOMAIN sg \cup {"max_depth"} |->
             CASE k = "url" -> Get(c, "url", sg.url)
               [] k = "mode" -> mode
               [] k = "max_depth" ->
                    IF mode = "recursive"
                    THEN Get(c, "max_depth", Get(sg, "max_depth", 1))
                    ELSE None
               [] OTHER -> sg[k]]

\* the queue entry SuggestionReviewer.add_to_queue builds
ReviewQueueEntry(sg) ==
  [k \in {"bounty_id", "url", "mode"}
         \cup (IF sg.mode = "recursive" /\ Get(sg, "max_depth", None) \notin {None, 0}
               THEN {"max_depth"} ELSE {})
         \cup (IF Get(sg, "categories", <<>>) # <<>> THEN {"categories"} ELSE {}) |->
     sg[k]]

\* SuggestionReviewer.add_to_queue
review_add_to_queue(queue, sg) == Append(queue, ReviewQueueEntry(sg))

\* the entry add_to_metadata and add_associated_url_to_metadata put in the
\* metadata.yml of the bounty
MetadataEntry(sg, type) ==
  [bounty_id |-> sg.bounty_id,
   field |-> IF type = "social" THEN "associated_socials" ELSE "associated_urls",
   url |-> sg.url]

\* whether add_to_metadata or add_associated_url_to_metadata returns True:
\* the bounty has a folder, the folder a metadata.yml, and the file does not
\* hold the entry yet
add_to_metadata(metadata, sg, type) ==
  /\ get_bounty_slug(sg.bounty_id)
  /\ sg.bounty_id \in MetadataYmls
  /\ MetadataEntry(sg, type) \notin metadata

\* the suggestion after `suggestion['type'] = ...  # Update for consistency`
Retyped(sg) ==
  IF Get(sg, "type", "scrape") = "scrape" /\ SuggestionType(sg) # "scrape"
  THEN Put(sg, "type", SuggestionType(sg))
  ELSE sg

\* what a session holds when it starts: the queue and the metadata files as
\* they are, the writes it has made, and the lists of the reviewer
SessionStart(queue, metadata) ==
  [queue |-> queue, metadata |-> metadata, writes |-> <<>>,
   manual |-> <<>>, remaining |-> <<>>,
   auto_accepted |-> <<>>, accepted |-> <<>>, modified |-> <<>>, ignored |-> <<>>]

\* add_to_queue during a session: the queue file is written at once
QueueWrite(acc, sg) ==
  [acc EXCEPT !.queue = review_add_to_queue(@, sg),
              !.writes = Append(@, [file |-> "queue", entry |-> ReviewQueueEntry(sg)])]

\* the first pass of review_suggestions, from the i-th suggestion on
RECURSIVE AutoPass(_, _, _)
AutoPass(suggestions, acc, i) ==
  IF i > Len(suggestions) THEN acc
  ELSE IF IsAutoAccepted(suggestions[i])
  THEN AutoPass(suggestions,
                [QueueWrite(acc, AutoAccepted(suggestions[i])) EXCEPT
                   !.auto_accepted = Append(@, suggestions[i].url)],
                i + 1)
  ELSE AutoPass(suggestions,
                [acc EXCEPT !.manual = Append(@, Retyped(suggestions[i]))], i + 1)

\* the body of the second loop for one suggestion and one answer other than
\* Quit
ReviewOne(acc, sg, c) ==
  LET type == SuggestionType(sg)
  IN IF c.key = "A" /\ type \in {"social", "associated_url"}
     THEN IF add_to_metadata(acc.metadata, sg, type)
          THEN [acc EXCEPT !.metadata = @ \cup {MetadataEntry(sg, type)},
                           !.writes = Append(@, [file |-> "metadata",
                                                 entry |-> MetadataEntry(sg, type)]),
                           !.accepted = Append(@, sg.url)]
          ELSE acc
     ELSE IF c.key = "A"
     THEN [QueueWrite(acc, sg) EXCEPT !.accepted = Append(@, sg.url)]
     ELSE IF c.key = "M" /\ type = "scrape"
     THEN IF Get(c, "confirm", TRUE)
          THEN [QueueWrite(acc, modify_suggestion(sg, c)) EXCEPT
                  !.modified = Append(@, sg.url)]
          ELSE [acc EXCEPT !.remaining = Append(@, sg)]
     ELSE IF c.key = "I"
     THEN [acc EXCEPT !.ignored = Append(@, sg.url)]
     ELSE IF c.key = "S"
     THEN [acc EXCEPT !.remaining = Append(@, sg)]
     ELSE acc

\* the second pass, from the i-th suggestion on, the reviewer answering
\* choice[i] for the i-th
RECURSIVE ManualPass(_, _, _, _)
ManualPass(manual, choice, acc, i) ==
  IF i > Len(manual) THEN acc
  ELSE IF choice[i].key = "Q"
  THEN [acc EXCEPT !.remaining = @ \o SubSeq(manual, i, Len(manual))]
  ELSE ManualPass(manual, choice, ReviewOne(acc, manual[i], choice[i]), i + 1)

\* the suggestions review_suggestions presents: those not scraped yet
ToReview(snap) ==
  SelectSeq(snap.suggestions,
            LAMBDA sg : ~is_already_scraped(sg.url, load_scraped_urls(snap.index)))

\* the suggestions left for the second pass
ManualOf(snap) == AutoPass(ToReview(snap), SessionStart(snap.queue, {}), 1).manual

\* the answers get_user_choice accepts for the suggestions of the second
\* pass: Modify is offered for scrape suggestions only
ValidChoices(manual, answers) ==
  { choice \in [1..Len(manual) -> answers] :
      \A i \in 1..Len(manual) :
         choice[i].key = "M" => SuggestionType(manual[i]) = "scrape" }

\* review_suggestions run to its end: the session as it ends, `remaining`
\* being what it saves as the suggestions
review_suggestions(snap, metadata, choice) ==
  IF snap.suggestions = <<>>
  THEN [SessionStart(snap.queue, metadata) EXCEPT !.remaining = snap.suggestions]
  ELSE LET first == AutoPass(ToReview(snap), SessionStart(snap.queue, metadata), 1)
       IN ManualPass(first.manual, choice, first, 1)

\* the queue entries and the metadata entries among the first n writes
WrittenTo(file, writes, n) ==
  LET on_file == SelectSeq(SubSeq(writes, 1, n), LAMBDA w : w.file = file)
  IN [i \in 1..Len(on_file) |-> on_file[i].entry]

\* what the reviewer object holds when the session ends
SessionLists(snap, session) ==
  [queued |-> WrittenTo("queue", session.writes, Len(session.writes)),
   metadata |-> WrittenTo("metadata", session.writes, Len(session.writes)),
   auto_accepted |-> session.auto_accepted,
   accepted |-> session.accepted,
   modified |-> session.modified,
   ignored |-> session.ignored,
   skipped_already_scraped |->
     LET skipped == SelectSeq(snap.suggestions,
                              LAMBDA sg : is_already_scraped(sg.url,
                                                             load_scraped_urls(snap.index)))
     IN [i \in 1..Len(skipped) |-> skipped[i].url],
   writes |-> Len(session.writes)]

----------------------------------------------------------------------------
(* The tools as processes on the four stores *)

\* what calls of add_to_index and add_links have left before the tools run
IndexSeeds == { <<>>, << IndexRecord(SeedGuide, 1) >> }
\* a link the domain rule of the configuration puts in the category github
GithubRepo == Url("https", <<"github", "com">>, <<"/", "x">>)
LinkSeeds ==
  { <<>>,
    << LinkRecord(XFoo, SeedGuide, 1), LinkRecord(GuideSlash, SeedGuide, 1),
       LinkRecord(GuideSlash, SeedSlash, 2), LinkRecord(AdsBanner, SeedSlash, 1),
       LinkRecord(GithubRepo, SeedGuide, 1) >> }

InitSuggest ==
  /\ index_file \in IndexSeeds
  /\ links_file \in LinkSeeds
  /\ queue_file = <<>>
  /\ suggestions_file = <<>>
  /\ results_file = <<>>
  /\ scraped = {}
  /\ pc = "idle"
  /\ raised = "None"
  /\ runs = 0
  /\ jobs = <<>>
  /\ job_idx = 0
  /\ results = <<>>
  /\ locals = NoLocals
  /\ fetch_log = <<>>
  /\ timeline = <<>>
  /\ registry = DefaultRegistry
  /\ metadata_file = {}
  /\ last_call = NoCall
  /\ calls = 0

\* suggest.py --source=metadata: generate_from_metadata, then save_suggestions
GenerateFromMetadata ==
  /\ calls < MaxCalls
  /\ \E items \in Metadata :
       LET emitted == generate_from_metadata(Before, items)
       IN /\ suggestions_file' = save_suggestions(suggestions_file, emitted)
          /\ last_call' = Call("generate_from_metadata", items, emitted)
  /\ calls' = calls + 1
  /\ UNCHANGED << stores, scraped, registry, metadata_file, scraperVars >>

\* suggest.py --source=links: generate_from_links, then save_suggestions
GenerateFromLinks ==
  /\ calls < MaxCalls
  /\ LET emitted == generate_from_links(Before)
     IN /\ suggestions_file' = save_suggestions(suggestions_file, emitted)
        /\ last_call' = Call("generate_from_links", links_file, emitted)
  /\ calls' = calls + 1
  /\ UNCHANGED << stores, scraped, registry, metadata_file, scraperVars >>

\* discover.py: LinkDiscoverer.run
Discover ==
  /\ calls < MaxCalls
  /\ LET emitted == discover_new_urls(Before)
     IN /\ suggestions_file' = discover_save_suggestions(suggestions_file, emitted)
        /\ last_call' = Call("discover_new_urls", links_file, emitted)
  /\ calls' = calls + 1
  /\ UNCHANGED << stores, scraped, registry, metadata_file, scraperVars >>

\* review.py: one session of review_suggestions run to its end, the
\* reviewer answering each suggestion of the second pass from the given
\* answers
Reviewed(answers) ==
  /\ \E choice \in ValidChoices(ManualOf(Before), answers) :
       LET session == review_suggestions(Before, metadata_file, choice)
       IN /\ queue_file' = session.queue
          /\ metadata_file' = session.metadata
          /\ suggestions_file' = session.remaining
          /\ last_call' = Call("review_suggestions", choice,
                               SessionLists(Before, session))
  /\ UNCHANGED << index_file, links_file, results_file, scraped, registry, metadata_file, scraperVars >>

\* review.py: a session that is interrupted (Ctrl-C, kill) after n of its
\* writes: the queue and the metadata files hold what was written so far,
\* the suggestions file, saved at the end only, is as it was
Interrupted(answers) ==
  /\ \E choice \in ValidChoices(ManualOf(Before), answers) :
       LET session == review_suggestions(Before, metadata_file, choice)
       IN \E n \in 1..Len(session.writes) :
            /\ queue_file' = queue_file \o WrittenTo("queue", session.writes, n)
            /\ metadata_file' = metadata_file
                 \cup Range(WrittenTo("metadata", session.writes, n))
            /\ last_call' = Call("review_interrupted", choice,
                                 [SessionLists(Before, session) EXCEPT !.writes = n])
  /\ UNCHANGED << index_file, links_file, results_file, suggestions_file, scraped,
                  registry, scraperVars >>

ReviewSession ==
  /\ calls < MaxCalls
  /\ Reviewed(Choices)
  /\ calls' = calls + 1

NextSuggest ==
  \/ GenerateFromMetadata
  \/ GenerateFromLinks
  \/ Discover
  \/ ReviewSession
  \/ AddSuggestions
  \/ AddToQueue

SpecSuggest == InitSuggest /\ [][NextSuggest]_vars

----------------------------------------------------------------------------
(* The handler registry: scraping/handlers/__init__.py *)

\* largest number of entries of a registry, the default entry included
MaxRegistry == 3
\* largest number of patterns of one entry
MaxPatterns == 2

\* Strings are sequences of characters here, so that case and substrings are
\* what they are in the code.
XDotC == <<"x", ".", "c">>
EDotC == <<"e", ".", "c">>

\* The authority of a URL: optional userinfo, the host, optional port.
Authority(userinfo, host, port) == [userinfo |-> userinfo, host |-> host, port |-> port]

\* the URLs resolve is called with
ResolveUrls ==
  { Authority(ui, h, po) : ui \in { <<>>, XDotC },
                           h \in { <<"X", ".", "C">>, EDotC },
                           po \in { <<>>, <<"8">> } }

\* the patterns callers register
Patterns == { <<"*">>, <<"X", ".", "c">>, <<"e">> }

PatternLists == UNION { [1..n -> Patterns] : n \in 1..MaxPatterns }

Handlers == { "StaticHttpScraper", "HandlerA", "HandlerB" }

\* whether an entry of the registry has a pattern, other than "*", whose
\* lower case is contained in the domain
EntryMatches(entry, domain) ==
  \E k \in 1..Len(entry.patterns) :
     entry.patterns[k] # <<"*">> /\ In(Lower(entry.patterns[k]), domain)

\* HandlerRegistry.resolve: the class of the handler it returns
resolve(reg, url) ==
  LET domain == Lower(netloc(url))
  IN IF \E i \in 1..Len(reg) : EntryMatches(reg[i], domain)
     THEN reg[CHOOSE i \in 1..Len(reg) :
                /\ EntryMatches(reg[i], domain)
                /\ \A j \in 1..(i - 1) : ~EntryMatches(reg[j], domain)].handler
     ELSE "StaticHttpScraper"

\* the state after `handler_registry = HandlerRegistry()`
InitRegistry ==
  /\ registry = DefaultRegistry
  /\ metadata_file = {}
  /\ index_file = <<>>
  /\ links_file = <<>>
  /\ queue_file = <<>>
  /\ suggestions_file = <<>>
  /\ results_file = <<>>
  /\ scraped = {}
  /\ pc = "idle"
  /\ raised = "None"
  /\ runs = 0
  /\ jobs = <<>>
  /\ job_idx = 0
  /\ results = <<>>
  /\ locals = NoLocals
  /\ fetch_log = <<>>
  /\ timeline = <<>>
  /\ last_call = NoCall
  /\ calls = 0

\* HandlerRegistry.register
Register ==
  /\ Len(registry) < MaxRegistry
  /\ \E patterns \in PatternLists, handler_cls \in Handlers :
       registry' = Append(registry, [patterns |-> patterns, handler |-> handler_cls])
  /\ UNCHANGED << stores, suggestions_file, metadata_file, scraped, last_call, calls, scraperVars >>

\* a call of HandlerRegistry.resolve; the call is recorded with the registry
\* it found
Resolve ==
  /\ calls < MaxCalls
  /\ \E url \in ResolveUrls :
       last_call' = Call("resolve", << [url |-> url, registry |-> registry] >>,
                         resolve(registry, url))
  /\ calls' = calls + 1
  /\ UNCHANGED << stores, suggestions_file, scraped, registry, metadata_file, scraperVars >>

NextRegistry ==
  \/ Register
  \/ Resolve

SpecRegistry == InitRegistry /\ [][NextRegistry]_vars

----------------------------------------------------------------------------
(* The classifier as its callers use it: scraping/config.py *)

\* largest number of rules of one table of the configuration
MaxRules == 2

\* URLs the classifier is called with, as characters:
\* https://g.c/d, https://x.c/g, https://G.C/D, https://x.c/?d
ClassifyUrls ==
  { Url("https", <<"g", ".", "c">>, <<"/", "d">>),
    Url("https", <<"x", ".", "c">>, <<"/", "g">>),
    Url("https", <<"G", ".", "C">>, <<"/", "D">>),
    Url("https", <<"x", ".", "c">>, <<"/", "?", "d">>) }

\* entries of categorization.domains and categorization.paths
DomainRules ==
  { [pattern |-> <<"g">>, cats |-> [list |-> <<"github">>]],
    [pattern |-> <<".", "C">>, cats |-> [list |-> <<"social", "github">>]],
    [pattern |-> <<"z">>, cats |-> [str |-> "docs"]] }

PathRules ==
  { [pattern |-> <<"d">>, cats |-> [list |-> <<"docs">>]],
    [pattern |-> <<"G">>, cats |-> [str |-> "github"]] }

\* entries of link_categories
LinkRules ==
  { [category |-> "github", patterns |-> << <<"g">> >>],
    [category |-> "docs", patterns |-> << <<"z">>, <<"D">> >>],
    [category |-> "social", patterns |-> <<>>] }

\* entries of categorization.type_mapping
TypeRules ==
  { [suggestion_type |-> "social", category_list |-> <<"social">>],
    [suggestion_type |-> "associated_url", category_list |-> <<"github", "social">>],
    [suggestion_type |-> "scrape", category_list |-> <<"docs">>] }

CategoryLists == { <<"other">>, <<"github">>, <<"docs", "github">>, <<"social", "github">> }

\* a dict of the configuration: its items in their order, no key twice
Tables(rules, key) ==
  { q \in UNION { [1..n -> rules] : n \in 0..MaxRules } :
      \A i, j \in 1..Len(q) : i # j => q[i][key] # q[j][key] }

\* a configuration with these tables
Config(domains, paths, links, types) ==
  [domain_categories |-> domains, path_categories |-> paths,
   link_categories |-> links, type_mapping |-> types]

InitClassify == InitRegistry

\* a call of ScrapeConfig.categorize_url, recorded with its arguments
CategorizeUrl ==
  /\ calls < MaxCalls
  /\ \E domains \in Tables(DomainRules, "pattern"), paths \in Tables(PathRules, "pattern"),
        url \in ClassifyUrls :
       LET config == Config(domains, paths, <<>>, <<>>)
       IN last_call' = Call("categorize_url", << [url |-> url, config |-> config] >>,
                            categorize_url(config, url))
  /\ calls' = calls + 1
  /\ UNCHANGED << stores, suggestions_file, scraped, registry, metadata_file, scraperVars >>

\* a call of ScrapeConfig.categorize_extracted_link
CategorizeExtractedLink ==
  /\ calls < MaxCalls
  /\ \E links \in Tables(LinkRules, "category"), url \in ClassifyUrls :
       LET config == Config(<<>>, <<>>, links, <<>>)
       IN last_call' = Call("categorize_extracted_link",
                            << [url |-> url, config |-> config] >>,
                            categorize_extracted_link(config, url))
  /\ calls' = calls + 1
  /\ UNCHANGED << stores, suggestions_file, scraped, registry, metadata_file, scraperVars >>

\* a call of ScrapeConfig.get_suggestion_type
GetSuggestionType ==
  /\ calls < MaxCalls
  /\ \E types \in Tables(TypeRules, "suggestion_type"), categories \in CategoryLists :
       LET config == Config(<<>>, <<>>, <<>>, types)
       IN last_call' = Call("get_suggestion_type",
                            << [categories |-> categories, config |-> config] >>,
                            get_suggestion_type(config, categories))
  /\ calls' = calls + 1
  /\ UNCHANGED << stores, suggestions_file, scraped, registry, metadata_file, scraperVars >>

NextClassify ==
  \/ CategorizeUrl
  \/ CategorizeExtractedLink
  \/ GetSuggestionType

SpecClassify == InitClassify /\ [][NextClassify]_vars

----------------------------------------------------------------------------
(* The review session as a process: scraping/review.py *)

\* a second repository on github
GithubOrg == Url("https", <<"github", "com">>, <<"/", "y">>)

\* a page of the partner
PartnerPage == Url("https", PartnerHost, <<"/">>)

\* the suggestions discover.py leaves for the links of scraped pages: two
\* repositories (one of a bounty whose folder has no metadata.yml), a link
\* an auto_accept rule takes, a page of the site and a page of a partner
ReviewPool ==
  { DiscoveredSuggestion(LinkRecord(GithubRepo, SeedGuide, 1)),
    DiscoveredSuggestion(LinkRecord(GithubOrg, SeedGuide, 3)),
    DiscoveredSuggestion(LinkRecord(XFoo, SeedGuide, 1)),
    DiscoveredSuggestion(LinkRecord(GuideSlash, SeedSlash, 1)),
    DiscoveredSuggestion(LinkRecord(PartnerPage, SeedGuide, 1)) }

\* the suggestions files a session finds: one or two suggestions
ReviewSeeds ==
  { << a >> : a \in ReviewPool }
  \cup { << p[1], p[2] >> :
           p \in { pair \in ReviewPool \X ReviewPool :
                     LexLess(UrlKey(pair[1].url), UrlKey(pair[2].url)) } }

\* what the reviewer answers: Accept, Ignore, Skip, Quit, or Modify with a
\* mode and a depth, confirmed or not
ReviewAnswers ==
  { [key |-> k] : k \in {"A", "I", "S", "Q"} }
  \cup { [key |-> "M", mode |-> "recursive", max_depth |-> 1],
         [key |-> "M", confirm |-> FALSE] }

InitReview ==
  /\ index_file \in IndexSeeds
  /\ links_file = <<>>
  /\ queue_file = <<>>
  /\ suggestions_file \in ReviewSeeds
  /\ results_file = <<>>
  /\ scraped = {}
  /\ pc = "idle"
  /\ raised = "None"
  /\ runs = 0
  /\ jobs = <<>>
  /\ job_idx = 0
  /\ results = <<>>
  /\ locals = NoLocals
  /\ fetch_log = <<>>
  /\ timeline = <<>>
  /\ registry = DefaultRegistry
  /\ metadata_file = {}
  /\ last_call = NoCall
  /\ calls = 0

\* python review.py, run to its end
Review ==
  /\ calls < MaxCalls
  /\ Reviewed(ReviewAnswers)
  /\ calls' = calls + 1

\* python review.py, interrupted
ReviewInterrupted ==
  /\ calls < MaxCalls
  /\ Interrupted(ReviewAnswers)
  /\ calls' = calls + 1

NextReview ==
  \/ Review
  \/ ReviewInterrupted

SpecReview == InitReview /\ [][NextReview]_vars

----------------------------------------------------------------------------
(* From the review to the crawl: scraping/review.py, scraping/scraper.py *)

\* the depths a reviewer types
ReviewDepths == {0, 1, 9}

\* the answers of a reviewer who accepts, skips, or sets mode recursive and
\* a depth
DepthAnswers ==
  { [key |-> k] : k \in {"A", "S"} }
  \cup { [key |-> "M", mode |-> "recursive", max_depth |-> d] : d \in ReviewDepths }

\* the suggestions files of one scrape suggestion that needs an answer
AcceptSeeds ==
  { seed \in ReviewSeeds :
      /\ Len(seed) = 1
      /\ SuggestionType(seed[1]) = "scrape"
      /\ ~IsAutoAccepted(seed[1]) }

InitAccept ==
  /\ InitReview
  /\ index_file = <<>>
  /\ suggestions_file \in AcceptSeeds

\* python review.py, run to its end by that reviewer
ReviewDepth ==
  /\ calls < MaxCalls
  /\ Reviewed(DepthAnswers)
  /\ calls' = calls + 1

NextAccept ==
  \/ ReviewDepth
  \/ Next

SpecAccept == InitAccept /\ [][NextAccept]_vars

----------------------------------------------------------------------------
(* Vocabulary of the properties *)

\* the scraper process has ended, by returning from run() or by an exception
Stopped == pc \in {"done", "crashed"}

\* no traversal is under way
AtRest == pc # "crawl"

\* the job the logged requests belong to, and whether scrape_job returned for it
LogJob == fetch_log[1].job
Returned(i) == i <= Len(results)

Is200(e) == e.resp.kind = "response" /\ e.resp.status_code = 200
IsCoded(e) == e.resp.kind = "response" /\ e.resp.status_code # 200
IsNetFail(e) == e.resp.kind = "exception"

\* the internal links of a page as the specification defines them: same host
\* as the seed and a path under the seed's path
InternalTargets(resp, base_url) ==
  { NormalizedLink(h) :
      h \in { x \in SurvivingHrefs(resp.hrefs, base_url) :
                /\ x.host = base_url.host
                /\ StartsWith(UrlPath(x), StripTrailing(UrlPath(base_url))) } }

\* the index records of a URL, whichever way its trailing slash is written
IndexRecordsOf(url) ==
  { i \in 1..Len(index_file) : RStrip(index_file[i].url) = RStrip(url) }

----------------------------------------------------------------------------
(* Properties *)

\* C1: in a recursive job no two requests are sent for URLs that are equal
\* after their trailing slashes are stripped.
C1_NoRefetch ==
  \A i, j \in 1..Len(fetch_log) :
     i # j => RStrip(fetch_log[i].url) # RStrip(fetch_log[j].url)

\* a recursive job has popped an entry of its frontier that was visited before
C1_DuplicatePopped ==
  /\ pc = "crawl"
  /\ locals.queue # <<>>
  /\ AlreadyVisited(Head(locals.queue).url, locals.visited)

\* a recursive job has sent more than one request
C1_SecondRequest == Len(fetch_log) >= 2

\* the keys of the collections
KeyUrl(e) == <<e.url>>
KeyLink(e) == <<e.url, e.source_url>>

KeysOf(q, Key(_)) == { Key(q[i]) : i \in 1..Len(q) }

UrlsOf(q) == { q[i].url : i \in 1..Len(q) }

\* the entry at position j of the batch is the first of the batch with its key
\* and its key is not in the collection
FirstNew(B, E, j, Key(_)) ==
  /\ Key(E[j]) \notin KeysOf(B, Key)
  /\ \A k \in 1..(j - 1) : Key(E[k]) # Key(E[j])

\* A is B followed by the first occurrences, in the order of the batch E, of
\* the keys of E that B does not hold
AddedOnce(B, E, A, Key(_)) ==
  LET new == { j \in 1..Len(E) : FirstNew(B, E, j, Key) }
  IN /\ Len(A) = Len(B) + Cardinality(new)
     /\ SubSeq(A, 1, Len(B)) = B
     /\ \A i \in (Len(B) + 1)..Len(A) :
          \E j \in new : /\ A[i] = E[j]
                         /\ Cardinality({ k \in new : k < j }) = i - Len(B) - 1

\* C12: after add_to_index, add_to_queue, add_suggestions (key url) and
\* add_links (key (url, source_url)) the collection is the one before the call
\* followed by the first occurrence of every key of the batch it did not hold:
\* a batch whose keys are all present changes nothing, and a key repeated in
\* the batch is appended once.
C12_AddIdempotent ==
  /\ last_call.op = "add_to_index" =>
        AddedOnce(last_call.before.index, last_call.batch, index_file, KeyUrl)
  /\ last_call.op = "add_to_queue" =>
        AddedOnce(last_call.before.queue, last_call.batch, queue_file, KeyUrl)
  /\ last_call.op = "add_suggestions" =>
        AddedOnce(last_call.before.suggestions, last_call.batch, suggestions_file, KeyUrl)
  /\ last_call.op = "add_links" =>
        AddedOnce(last_call.before.links, last_call.batch, links_file, KeyLink)

\* add_to_queue was called on a queue that is not empty with a batch that
\* holds the same new url twice, and one entry was appended
C12_RepeatedKeyAdded ==
  /\ last_call.op = "add_to_queue"
  /\ last_call.before.queue # <<>>
  /\ Len(last_call.batch) = 2
  /\ last_call.batch[1].url = last_call.batch[2].url
  /\ Len(queue_file) = Len(last_call.before.queue) + 1

\* C2: in a recursive job with max_depth = N no request is sent for a URL
\* deeper than N, and the internal links found on a page fetched at depth N
\* are recorded in the job's outgoing internal links while nothing is put on
\* the frontier at depth N + 1.
C2_DepthBound ==
  (fetch_log # <<>> /\ jobs[LogJob].mode = "recursive") =>
     /\ \A k \in 1..Len(fetch_log) : fetch_log[k].depth <= jobs[LogJob].max_depth
     /\ \A k \in 1..Len(locals.queue) : locals.queue[k].depth <= jobs[LogJob].max_depth
     /\ \A k \in 1..Len(fetch_log) :
          (Is200(fetch_log[k]) /\ fetch_log[k].depth = jobs[LogJob].max_depth) =>
             InternalTargets(fetch_log[k].resp, jobs[LogJob].url) \subseteq locals.all_internal

\* C3: a job in which no request returned 200 ends 'completed' when every
\* failure was an HTTP response and 'failed' when a failure was a network
\* failure.
C3_ZeroSuccessStatus ==
  (AtRest /\ fetch_log # <<>> /\ \A k \in 1..Len(fetch_log) : ~Is200(fetch_log[k])) =>
     /\ Returned(LogJob)
     /\ results[LogJob].status =
          IF \A k \in 1..Len(fetch_log) : IsCoded(fetch_log[k]) THEN "completed" ELSE "failed"

\* C4: a recursive job in which a request returned 200 ends 'completed' when
\* no failure was a network failure and 'partial' when one was; it never ends
\* 'failed'.
C4_SuccessStatus ==
  (/\ AtRest /\ fetch_log # <<>>
   /\ jobs[LogJob].mode = "recursive"
   /\ \E k \in 1..Len(fetch_log) : Is200(fetch_log[k])) =>
     /\ Returned(LogJob)
     /\ results[LogJob].status =
          IF \E k \in 1..Len(fetch_log) : IsNetFail(fetch_log[k]) THEN "partial"
          ELSE "completed"

\* the job's seed was answered with the HTTP status code
SeedAnswered(i, code) ==
  /\ "url_results" \in DOMAIN results[i]
  /\ jobs[i].url \in DOMAIN results[i].url_results
  /\ results[i].url_results[jobs[i].url].error_code = code
  /\ results[i].url_results[jobs[i].url].status = "failed"

\* C5: a job, single or recursive, whose seed answers 404 has pages_scraped = 0
\* and status 'completed', and once the run has ended the index holds exactly
\* one record for the seed, 'failed' with error_code 404.
C5_Seed404 ==
  \A i \in 1..Len(results) :
     SeedAnswered(i, 404) =>
        /\ results[i].pages_scraped = 0
        /\ results[i].status = "completed"
        /\ Stopped =>
             /\ Cardinality(IndexRecordsOf(jobs[i].url)) = 1
             /\ \A k \in IndexRecordsOf(jobs[i].url) :
                  /\ index_file[k].status = "failed"
                  /\ Get(index_file[k], "error_code", None) = 404

\* C6: a job whose seed times out has status 'failed' and an error marker on
\* disk, and once the run has ended the index holds exactly one record for the
\* seed, 'failed' without error_code.
C6_SeedTimeout ==
  \A i \in 1..Len(results) :
     SeedAnswered(i, None) =>
        /\ results[i].status = "failed"
        /\ url_to_filepath(jobs[i].url, jobs[i].bounty_id, ".error.yml") \in scraped
        /\ Stopped =>
             /\ Cardinality(IndexRecordsOf(jobs[i].url)) = 1
             /\ \A k \in IndexRecordsOf(jobs[i].url) :
                  /\ index_file[k].status = "failed"
                  /\ Get(index_file[k], "error_code", None) = None

\* the example: seed https://docs.example.com/ crawled recursively to depth 1,
\* a seed page with the three anchors, every later page 200 without anchors
ExampleJob ==
  /\ fetch_log # <<>>
  /\ jobs[LogJob] = QueueRecord(1, SeedSlash, "recursive", 1)
  /\ fetch_log[1].resp =
       [kind |-> "response", status_code |-> 200, text |-> TRUE, hrefs |-> ExampleAnchors]
  /\ \A k \in 2..Len(fetch_log) :
       fetch_log[k].resp =
         [kind |-> "response", status_code |-> 200, text |-> TRUE, hrefs |-> {}]

\* C7: the example job sends exactly two requests (seed and /guide), records
\* one social and one external link and ends 'completed'.
C7_Example ==
  (AtRest /\ ExampleJob) =>
     /\ Returned(LogJob)
     /\ Len(fetch_log) = 2
     /\ fetch_log[2].url = Url("https", DocsHost, <<"/", "guide">>)
     /\ Len(results[LogJob].outgoing_urls.social) = 1
     /\ Len(results[LogJob].outgoing_urls.external) = 1
     /\ results[LogJob].status = "completed"

\* the fields of a job result the two modes are compared on
SameJobResult(r1, r2) ==
  /\ r1.status = r2.status
  /\ r1.pages_scraped = r2.pages_scraped
  /\ r1.visited_urls = r2.visited_urls
  /\ r1.url_results = r2.url_results
  /\ r1.outgoing_urls = r2.outgoing_urls

\* what scrape_recursive returns for the job with max_depth 0 and what
\* scrape_single returns for it, the seed being answered with resp
AsRecursiveDepth0(job, resp) ==
  LET job0 == [job EXCEPT !.mode = "recursive", !.max_depth = 0]
      sp == scrape_page(job.url, job.url, resp)
  IN RecursiveResult(RecursiveFetched(RecursiveLocals(job0), job0, sp, <<>>), job0)

AsSingle(job, resp) == SingleResult(job, scrape_page(job.url, job.url, resp))

\* C8: for every seed and every answer to its request, scrape_single and
\* scrape_recursive with max_depth 0 return the same status, pages_scraped,
\* visited_urls, per-URL results and outgoing links.
C8_SingleIsDepth0 ==
  (fetch_log # <<>> /\ AtRest /\ Returned(LogJob)) =>
     /\ jobs[LogJob].mode = "single" =>
          SameJobResult(results[LogJob], AsRecursiveDepth0(jobs[LogJob], fetch_log[1].resp))
     /\ (jobs[LogJob].mode = "recursive" /\ jobs[LogJob].max_depth = 0) =>
          SameJobResult(results[LogJob], AsSingle(jobs[LogJob], fetch_log[1].resp))

\* the job's request for the URL returned 200
FetchedOk(i, url) ==
  \E u \in DOMAIN results[i].url_results :
     RStrip(u) = RStrip(url) /\ results[i].url_results[u].status = "success"

\* the error code of the job's request for the URL
ErrorCodeOf(i, url) ==
  LET u == CHOOSE x \in DOMAIN results[i].url_results : RStrip(x) = RStrip(url)
  IN results[i].url_results[u].error_code

\* C9: once the run has ended the index, empty before it, holds for every URL
\* visited in a job one record whose status is 'success' exactly when the
\* URL's request returned 200, and 'failed' with the URL's error code
\* otherwise.
C9_IndexPerVisitedUrl ==
  (Stopped /\ runs = 1) =>
     \A i \in 1..Len(results) :
        \A url \in Range(Get(results[i], "visited_urls", <<>>)) :
           /\ Cardinality(IndexRecordsOf(url)) = 1
           /\ \A k \in IndexRecordsOf(url) :
                /\ index_file[k].status = "success" <=> FetchedOk(i, url)
                /\ ~FetchedOk(i, url) =>
                     Get(index_file[k], "error_code", None) = ErrorCodeOf(i, url)

\* C10: once the run has ended every job that ended 'completed' or 'partial'
\* is gone from the queue, every job that ended 'failed' is still in it, and
\* the records of URLs the run did not process are as they were.
C10_QueuePruned ==
  Stopped =>
     /\ \A i \in 1..Len(results) :
          /\ results[i].status \in {"completed", "partial"} =>
               jobs[i].url \notin { queue_file[k].url : k \in 1..Len(queue_file) }
          /\ results[i].status = "failed" => jobs[i] \in Range(queue_file)
     /\ \A i \in (Len(results) + 1)..Len(jobs) : jobs[i] \in Range(queue_file)

\* C15: the index never holds two entries with the same url.
C15_IndexUrlUnique ==
  \A i, j \in 1..Len(index_file) : i # j => index_file[i].url # index_file[j].url

\* add_to_index was called with an entry whose url the index already held,
\* beside an entry it did not hold
C15_ReAdded ==
  /\ last_call.op = "add_to_index"
  /\ \E k \in 1..Len(last_call.batch) :
        last_call.batch[k].url \in UrlsOf(last_call.before.index)
  /\ Len(index_file) > Len(last_call.before.index)

\* C17: get_all_known_urls returns the union of the urls of the index, the
\* queue and the suggestions, and is_url_known(u) is true exactly when u is in
\* that union.
C17_KnownUrls ==
  /\ last_call.op = "get_all_known_urls" =>
        last_call.out = UrlsOf(last_call.before.index) \cup UrlsOf(last_call.before.queue)
                          \cup UrlsOf(last_call.before.suggestions)
  /\ last_call.op = "is_url_known" =>
        (last_call.out <=> last_call.batch[1] \in get_all_known_urls(last_call.before))

\* get_all_known_urls was called with entries in all three collections
C17_AllThreeHeld ==
  /\ last_call.op = "get_all_known_urls"
  /\ last_call.before.index # <<>>
  /\ last_call.before.queue # <<>>
  /\ last_call.before.suggestions # <<>>
  /\ UrlsOf(last_call.before.suggestions) \ UrlsOf(last_call.before.index) # {}

\* C19: a call reset_all() with the default argument leaves the index, the
\* queue, the suggestions and the discovered links empty and the scraped files
\* as they were.
C19_ResetWipes ==
  [][ (calls' = calls + 1 /\ last_call'.op = "reset_all" /\ last_call'.batch = <<TRUE>>) =>
        /\ index_file' = <<>>
        /\ queue_file' = <<>>
        /\ suggestions_file' = <<>>
        /\ links_file' = <<>>
        /\ scraped' = scraped ]_vars

\* reset_all() was called with entries in the index, the queue and the
\* suggestions and with scraped files on disk
C19_ResetOfHeldStores ==
  /\ last_call.op = "reset_all"
  /\ last_call.batch = <<TRUE>>
  /\ last_call.before.index # <<>>
  /\ last_call.before.queue # <<>>
  /\ last_call.before.suggestions # <<>>
  /\ scraped # {}

\* the URLs whose fetch-and-persist step the current run has completed: those
\* of the finished jobs and those of the traversal in progress
CompletedUrls ==
  UNION { DOMAIN Get(results[i], "url_results", <<>>) : i \in 1..Len(results) }
  \cup DOMAIN locals.url_results

HasIndexRecord(url) == \E i \in 1..Len(index_file) : index_file[i].url = url

HasResultRecord(url) ==
  \E i \in 1..Len(results_file) :
     \/ results_file[i].url = url
     \/ url \in DOMAIN Get(results_file[i], "url_results", <<>>)

\* C11: when a run is aborted after some URL's fetch-and-persist step has
\* completed, the Index and Result records of the completed URLs are in the
\* stores.
C11_DurableProgress ==
  (pc = "crashed" /\ raised = "KeyboardInterrupt") =>
     \A url \in CompletedUrls : HasIndexRecord(url) /\ HasResultRecord(url)

\* C16: every keyword set update_index builds with status 'failed', and every
\* entry of the index file with that status, has the empty location, also
\* when its job created files.
C16_FailedNoLocation ==
  /\ \A i \in 1..Len(index_file) :
        Get(index_file[i], "status", "success") = "failed" =>
           Get(index_file[i], "location", NoLocation) = NoLocation
  /\ \A i \in 1..Len(UpdateIndexKwargs(results)) :
        UpdateIndexKwargs(results)[i].status = "failed" =>
           UpdateIndexKwargs(results)[i].location = NoLocation

\* update_index is reached with a failed URL whose job persisted the body of
\* the failed response
C16_FailedBodyPersisted ==
  /\ pc = "crashed"
  /\ raised = "TypeError"
  /\ \E i \in 1..Len(results) :
        \E j \in 1..Len(UrlsToIndex(results[i])) :
           /\ IndexEntryKwargs(results[i], UrlsToIndex(results[i])[j]).status = "failed"
           /\ BaseLocation(results[i]) # NoLocation

\* C13: the Suggestions store never holds two entries with the same url.
C13_SuggestionUrlUnique ==
  \A i, j \in 1..Len(suggestions_file) :
     suggestions_file[i].url = suggestions_file[j].url => i = j

\* C14: the Queue never holds two entries with the same url.
C14_QueueUrlUnique ==
  \A i, j \in 1..Len(queue_file) : queue_file[i].url = queue_file[j].url => i = j

Generations == {"generate_from_metadata", "generate_from_links", "discover_new_urls"}

\* C18: no generation emits a URL that the Index, the Queue or the
\* Suggestions store held when the generation started.
C18_NoKnownUrlEmitted ==
  last_call.op \in Generations =>
     \A i \in 1..Len(last_call.out) :
        /\ ~is_indexed(last_call.before.index, last_call.out[i].url)
        /\ ~is_queued(last_call.before.queue, last_call.out[i].url)
        /\ ~is_suggested(last_call.before.suggestions, last_call.out[i].url)

\* a generation from metadata found one of its URLs in a store and suppressed
\* it, and emitted another
C18_SuppressedAndEmitted ==
  /\ last_call.op = "generate_from_metadata"
  /\ last_call.out # <<>>
  /\ \E i \in 1..Len(last_call.batch) :
        /\ last_call.batch[i].field \notin ExcludedFields
        /\ is_url_known(last_call.before, last_call.batch[i].url)

\* whether an entry has a pattern that is a case-insensitive substring of
\* the host
MatchesHost(entry, url) ==
  \E k \in 1..Len(entry.patterns) : In(Lower(entry.patterns[k]), Lower(url.host))

\* the handler of the first entry, in registration order, with a pattern that
\* is a case-insensitive substring of the host; the static handler if none
FirstHostMatch(reg, url) ==
  IF \E i \in 1..Len(reg) : MatchesHost(reg[i], url)
  THEN reg[CHOOSE i \in 1..Len(reg) :
             /\ MatchesHost(reg[i], url)
             /\ \A j \in 1..(i - 1) : ~MatchesHost(reg[j], url)].handler
  ELSE "StaticHttpScraper"

\* C20: resolve returns the handler of the first registry entry, in
\* registration order, that has a pattern which is a case-insensitive
\* substring of the URL's host, and the static handler when none has.
C20_ResolveFirstHostMatch ==
  last_call.op = "resolve" =>
     last_call.out = FirstHostMatch(last_call.batch[1].registry, last_call.batch[1].url)

\* the same for the URLs whose authority is the host alone
ResolveFirstMatchOnBareHost ==
  (/\ last_call.op = "resolve"
   /\ last_call.batch[1].url.userinfo = <<>>
   /\ last_call.batch[1].url.port = <<>>) =>
     last_call.out = FirstHostMatch(last_call.batch[1].registry, last_call.batch[1].url)

\* C21: fetch returns the page with error code = status and message 'HTTP
\* <status>' for a non-2xx response, the page with no error code and no
\* message for a 2xx response, and no page, no error code and a textual
\* error for a network failure.
C21_SoftFailureIffNon2xx ==
  \A i \in 1..Len(fetch_log) :
     LET resp == fetch_log[i].resp
         f == fetch(fetch_log[i].url, resp)
         is2xx == resp.status_code >= 200 /\ resp.status_code <= 299
     IN /\ resp.kind = "exception" =>
             ~f.has_page /\ f.error_code = None /\ f.error_message = ExceptionMessage
        /\ (resp.kind = "response" /\ is2xx) =>
             f.has_page /\ f.error_code = None /\ f.error_message = NoMessage
        /\ (resp.kind = "response" /\ ~is2xx) =>
             /\ f.has_page
             /\ f.error_code = resp.status_code
             /\ f.error_message = HttpMessage(resp.status_code)

\* C22: a network or HTTP failure on a URL of a recursive job is not raised:
\* the traversal goes on, and the failure is in the job's per-URL results and
\* in its errors list.
C22_FailureCaptured ==
  \A i \in 1..Len(fetch_log) :
     (/\ jobs[fetch_log[i].job].mode = "recursive"
      /\ IsCoded(fetch_log[i]) \/ IsNetFail(fetch_log[i])) =>
        /\ ~fetch_log[i].raised
        /\ (pc = "crawl" =>
              /\ fetch_log[i].url \in DOMAIN locals.url_results
              /\ locals.url_results[fetch_log[i].url].status = "failed"
              /\ \E k \in 1..Len(locals.errors) : locals.errors[k].url = fetch_log[i].url)

\* C25: for every text page that is processed, link discovery ends with each
\* surviving link in exactly one of the buckets social, internal, external:
\* the three sets are pairwise disjoint, together they are the surviving
\* links, and none of them holds an ignored link.
C25_OneBucketPerLink ==
  \A i \in 1..Len(fetch_log) :
     LET e == fetch_log[i]
         base_url == jobs[e.job].url
         sp == scrape_page(e.url, base_url, e.resp)
         surviving == { NormalizedLink(h) : h \in SurvivingHrefs(e.resp.hrefs, base_url) }
     IN (e.resp.kind = "response" /\ e.resp.text) =>
          /\ ~sp.raised
          /\ sp.page.social_links \cup sp.page.internal_links \cup sp.page.external_links
               = surviving
          /\ sp.page.social_links \cap sp.page.internal_links = {}
          /\ sp.page.social_links \cap sp.page.external_links = {}
          /\ sp.page.internal_links \cap sp.page.external_links = {}
          /\ \A u \in surviving : ~is_ignored(u)

\* the jobs the run has started: those before the loop position, and the one
\* at it once a request of it is logged
Started(i) == i < job_idx \/ (fetch_log # <<>> /\ LogJob = i)

\* C29: every job that was started ends in exactly one terminal status: when
\* the process has stopped by itself, each started job has its result, with
\* status completed, partial or failed.
C29_JobTerminates ==
  (Stopped /\ raised # "KeyboardInterrupt") =>
     \A i \in 1..Len(jobs) :
        Started(i) =>
           /\ Returned(i)
           /\ results[i].status \in {"completed", "partial", "failed"}

\* the records of the result log written by the current run
AppendedThisRun == SelectSeq(results_file, LAMBDA r : r.scraped_at = runs)

\* no step removes, changes or reorders a record of the result log
ResultLogKept ==
  [][/\ Len(results_file) <= Len(results_file')
     /\ SubSeq(results_file', 1, Len(results_file)) = results_file]_vars

\* C30: the result log is append-only, and a run that has ended has appended
\* exactly one record per job it processed.
C30_ResultLogAppendOnly ==
  /\ ResultLogKept
  /\ []((Stopped /\ raised # "KeyboardInterrupt") => AppendedThisRun = results)

\* C28: every suggestion in the suggestions file carries the type that
\* get_suggestion_type, the first type of the configured mapping whose
\* category list meets the suggestion's categories and "scrape" when there is
\* none, gives for its categories.
C28_TypeFromMapping ==
  \A i \in 1..Len(suggestions_file) :
     suggestions_file[i].type
       = get_suggestion_type(ScrapeConfig, suggestions_file[i].categories)

\* a recorded call of one of the two categorizers
CategorizeCall == last_call.op \in {"categorize_url", "categorize_extracted_link"}

\* whether a pattern, in lower case, is in the host, the path or the whole
\* string of the URL
PatternMatches(pattern, url) ==
  \/ In(Lower(pattern), Lower(netloc(url)))
  \/ In(Lower(pattern), Lower(UrlPath(url)))
  \/ In(Lower(pattern), Lower(FullUrl(url)))

\* the categories of a configuration that have a pattern matching the URL
MatchingCategories(config, url) ==
  LET tables == config.domain_categories \o config.path_categories
  IN UNION { CatsOf(tables[i].cats) :
               i \in { k \in 1..Len(tables) : PatternMatches(tables[k].pattern, url) } }
     \cup { config.link_categories[i].category :
              i \in { k \in 1..Len(config.link_categories) :
                        \E n \in 1..Len(config.link_categories[k].patterns) :
                           PatternMatches(config.link_categories[k].patterns[n], url) } }

\* C26: a categorizer returns exactly the categories with a pattern that is,
\* case-insensitively, in the URL's host, path or whole string, each once;
\* it returns ["other"] exactly when no pattern matches, and never the
\* empty list.
C26_ExactlyMatchingCategories ==
  CategorizeCall =>
    LET out == last_call.out
        matching == MatchingCategories(last_call.batch[1].config, last_call.batch[1].url)
    IN /\ out # <<>>
       /\ \A i, j \in 1..Len(out) : i # j => out[i] # out[j]
       /\ matching # {} => Range(out) = matching
       /\ (out = <<"other">>) <=> (matching = {})

\* the orders in which the items of a dict can be configured
ItemOrders(q) ==
  { [i \in 1..Len(q) |-> q[p[i]]] :
      p \in { f \in [1..Len(q) -> 1..Len(q)] : \A i, j \in 1..Len(q) : i # j => f[i] # f[j] } }

\* the configurations with the same rules in another order
Reordered(config) ==
  { Config(domains, paths, links, config.type_mapping) :
      domains \in ItemOrders(config.domain_categories),
      paths \in ItemOrders(config.path_categories),
      links \in ItemOrders(config.link_categories) }

\* the categorizer a recorded call ran
Categorizer(op, config, url) ==
  IF op = "categorize_url" THEN categorize_url(config, url)
  ELSE categorize_extracted_link(config, url)

\* C27: evaluating a categorizer again on the same URL and configuration
\* gives the same categories, and so does evaluating it with the rules of
\* the configuration in any other order.
C27_OrderIndependent ==
  CategorizeCall =>
    LET url == last_call.batch[1].url
        config == last_call.batch[1].config
    IN /\ Categorizer(last_call.op, config, url) = last_call.out
       /\ \A other \in Reordered(config) :
             Range(Categorizer(last_call.op, other, url)) = Range(last_call.out)

\* a call of categorize_url with two domain rules that both match and add
\* different categories
C27_TwoRulesMatched ==
  /\ last_call.op = "categorize_url"
  /\ LET config == last_call.batch[1].config
         domain == Lower(netloc(last_call.batch[1].url))
     IN /\ Len(config.domain_categories) = 2
        /\ \A i \in 1..2 : In(Lower(config.domain_categories[i].pattern), domain)
        /\ CatsOf(config.domain_categories[1].cats) # CatsOf(config.domain_categories[2].cats)
  /\ Len(last_call.out) = 2

\* C23: when run() loads the queue, every record QueueEntry accepts becomes
\* a job of the run and no exception leaves load_queue, whatever malformed
\* records the file holds beside them.
C23_MalformedRecordSkipped ==
  [][(pc \in {"idle", "done", "crashed"} /\ runs' = runs + 1) =>
       /\ raised' = "None"
       /\ jobs' = SelectSeq(queue_file, LAMBDA d : QueueEntryValid(d))]_vars

\* C24: in the requests and sleeps of a run, in the order they happened, a
\* request is never directly followed by another request: a sleep of
\* rate_limit_delay lies between every two consecutive requests, inside a
\* recursive job and from one job to the next.
C24_DelayBetweenRequests ==
  \A i \in 1..(Len(timeline) - 1) :
     ~(timeline[i] = "request" /\ timeline[i + 1] = "request")

\* what scrape_page returned for a logged request
PageOf(e) == scrape_page(e.url, jobs[e.job].url, e.resp).page

\* the links of the pages of the current job that answered 200
LinksOf200(field) ==
  UNION { PageOf(fetch_log[i])[field] :
            i \in { k \in 1..Len(fetch_log) :
                      Is200(fetch_log[k]) /\ ~fetch_log[k].raised } }

\* C31: in a recursive job a URL answered with a status other than 200 has
\* its body written, is recorded failed with the status as error_code, has
\* exactly one entry in the errors of the job, and gives no link to the
\* frontier or to the outgoing link sets of the job: these hold links of
\* pages answered with 200 only.
C31_Non200NotExpanded ==
  \A i \in 1..Len(fetch_log) :
     (jobs[fetch_log[i].job].mode = "recursive" /\ IsCoded(fetch_log[i])) =>
        LET e == fetch_log[i]
        IN /\ ~e.raised
           /\ pc = "crawl" =>
                /\ url_to_filepath(e.url, jobs[e.job].bounty_id, PageOf(e).extension)
                     \in scraped
                /\ e.url \in DOMAIN locals.url_results
                /\ locals.url_results[e.url].status = "failed"
                /\ locals.url_results[e.url].error_code = e.resp.status_code
                /\ Cardinality({ k \in 1..Len(locals.errors) :
                                   locals.errors[k].url = e.url }) = 1
                /\ locals.all_internal \subseteq LinksOf200("internal_links")
                /\ locals.all_external \subseteq LinksOf200("external_links")
                /\ locals.all_social \subseteq LinksOf200("social_links")
                /\ \A k \in 1..Len(locals.queue) :
                      locals.queue[k].depth > 0 =>
                        locals.queue[k].url \in LinksOf200("internal_links")

\* C32: a confirmed reset-all of the cleanup tool, and a call
\* reset_all(include_queue=False), leave the index, the results, the
\* discovered links and the suggestions empty and the queue as it was.
C32_ResetKeepsQueue ==
  [][ (/\ calls' = calls + 1
       /\ \/ last_call'.op = "reset_all" /\ last_call'.batch = <<FALSE>>
          \/ last_call'.op = "cleanup_reset_all" /\ last_call'.batch = <<"yes">>) =>
        /\ index_file' = <<>>
        /\ results_file' = <<>>
        /\ links_file' = <<>>
        /\ suggestions_file' = <<>>
        /\ queue_file' = queue_file ]_vars

\* reset_all(include_queue=False) was called with entries in the index, the
\* results, the suggestions and the queue, and the queue still holds them
C32_QueueSurvivedReset ==
  /\ last_call.op = "reset_all"
  /\ last_call.batch = <<FALSE>>
  /\ last_call.before.index # <<>>
  /\ last_call.before.results # <<>>
  /\ last_call.before.suggestions # <<>>
  /\ last_call.before.queue # <<>>
  /\ queue_file = last_call.before.queue

\* the cleanup tool emptied a held index and left a held queue
C32_CleanupKeptQueue ==
  /\ last_call.op = "cleanup_reset_all"
  /\ last_call.batch = <<"yes">>
  /\ last_call.before.index # <<>>
  /\ queue_file # <<>>

\* C33: when run() has processed its jobs, update_index does not raise on
\* their results, and the index update, the links update and the queue
\* pruning are all performed.
C33_UpdateIndexCompletes ==
  [][ (/\ pc = "jobs" /\ job_idx > Len(jobs)
       /\ pc' # "jobs" /\ raised' # "KeyboardInterrupt") =>
        /\ ~UpdateIndexRaises(results)
        /\ pc' = "done"
        /\ index_file' = update_index(index_file, results)
        /\ links_file' = save_links(links_file, results)
        /\ queue_file' = clear_queue(queue_file, results) ]_vars

\* a call of add_to_index keeps every entry the index held, at its place
IndexEntriesKept ==
  [][ (calls' = calls + 1 /\ last_call'.op = "add_to_index") =>
        /\ Len(index_file') >= Len(index_file)
        /\ SubSeq(index_file', 1, Len(index_file)) = index_file ]_vars

FinishedTraversals ==
  { i \in 1..Len(results) :
      results[i].mode = "recursive" /\ "visited_urls" \in DOMAIN results[i] }

\* C35: in the result of a finished recursive job the keys of url_results
\* are exactly the URLs of visited_urls, as the same strings, every entry is
\* 'success' or 'failed', and errors holds as many strings as there are
\* 'failed' entries.
C35_BookkeepingConsistent ==
  \A i \in FinishedTraversals :
     LET r == results[i]
     IN /\ DOMAIN r.url_results = Range(r.visited_urls)
        /\ Len(r.visited_urls) = Cardinality(DOMAIN r.url_results)
        /\ \A u \in DOMAIN r.url_results :
              r.url_results[u].status \in {"success", "failed"}
        /\ Len(r.errors)
             = Cardinality({ u \in DOMAIN r.url_results :
                               r.url_results[u].status = "failed" })

\* the same with the URLs compared after their trailing slashes are stripped
BookkeepingUpToSlash ==
  \A i \in FinishedTraversals :
     LET r == results[i]
     IN /\ { RStrip(u) : u \in DOMAIN r.url_results } = Range(r.visited_urls)
        /\ Len(r.visited_urls) = Cardinality(DOMAIN r.url_results)
        /\ \A u \in DOMAIN r.url_results :
              r.url_results[u].status \in {"success", "failed"}
        /\ Len(r.errors)
             = Cardinality({ u \in DOMAIN r.url_results :
                               r.url_results[u].status = "failed" })

\* the jobs scrape_job returned for whose bounty has no folder
NoFolderJobs ==
  { i \in 1..Len(results) : jobs[i].bounty_id \notin BountyFolders }

\* the jobs of bounties without a folder ended 'failed' and, once the run
\* has ended, are still in the queue and have no record in the links file
NoFolderJobsKept ==
  \A i \in NoFolderJobs :
     /\ results[i].status = "failed"
     /\ Stopped =>
          /\ \E k \in 1..Len(queue_file) : queue_file[k] = jobs[i]
          /\ \A k \in 1..Len(links_file) :
                ~(/\ links_file[k].source_url = jobs[i].url
                  /\ links_file[k].bounty_id = jobs[i].bounty_id)

\* C36: the step of run() that processes a job whose bounty has no folder
\* sends no request, writes no file and returns a result with status
\* 'failed'; once the run has ended the job is still in the queue and the
\* links file holds no record of it.
C36_NoFolderJob ==
  [][ /\ (/\ pc = "jobs" /\ job_idx <= Len(jobs)
          /\ jobs[job_idx].bounty_id \notin BountyFolders
          /\ raised' # "KeyboardInterrupt") =>
           /\ timeline' = timeline
           /\ scraped' = scraped
           /\ fetch_log' = <<>>
           /\ Len(results') = Len(results) + 1
           /\ results'[Len(results')].status = "failed"
           /\ pc' = "jobs"
      /\ NoFolderJobsKept' ]_vars

\* a run has ended after a job of a bounty without a folder and a job that
\* was fetched
C36_NoFolderBesideFetched ==
  /\ Stopped
  /\ raised # "KeyboardInterrupt"
  /\ Len(results) = 2
  /\ NoFolderJobs # {}
  /\ timeline # <<>>
  /\ results_file # <<>>

\* the ways a completed review session accounts for a suggestion it loaded:
\* the lists of the reviewer object, the filter on scraped URLs and the
\* suggestions file the session leaves
Fates(sg) ==
  LET lists == last_call.out
      metadata_type == SuggestionType(sg) \in {"social", "associated_url"}
  IN (IF \/ sg.url \in Range(lists.auto_accepted) \cup Range(lists.modified)
         \/ sg.url \in Range(lists.accepted) /\ ~metadata_type
      THEN {"queue"} ELSE {})
     \cup (IF sg.url \in Range(lists.accepted) /\ metadata_type
           THEN {"metadata"} ELSE {})
     \cup (IF sg.url \in Range(lists.ignored) THEN {"ignored"} ELSE {})
     \cup (IF sg.url \in Range(lists.skipped_already_scraped) THEN {"filtered"} ELSE {})
     \cup (IF \E j \in 1..Len(suggestions_file) :
                /\ suggestions_file[j].url = sg.url
                /\ suggestions_file[j].bounty_id = sg.bounty_id
           THEN {"kept"} ELSE {})

\* C37: when a review session has ended, every suggestion it loaded is
\* accounted for in exactly one way: added to the queue, added to the metadata
\* of its bounty, ignored, filtered out as already indexed, or still in the
\* suggestions store; so a suggestion whose accept did not take effect is
\* still in the store
C37_EverySuggestionAccounted ==
  last_call.op = "review_suggestions" =>
    \A i \in 1..Len(last_call.before.suggestions) :
       Cardinality(Fates(last_call.before.suggestions[i])) = 1

\* the previous session was interrupted after it had written to the queue
InterruptedAfterQueueing ==
  /\ last_call.op = "review_interrupted"
  /\ Len(queue_file) > Len(last_call.before.queue)

\* C38: when a review session was interrupted after it had added suggestions
\* to the queue and the next session runs to its end, the queue holds no URL
\* twice and the suggestions store holds no URL of the queue
C38_RerunAfterInterruption ==
  [][(InterruptedAfterQueueing /\ last_call'.op = "review_suggestions") =>
       /\ \A i, j \in 1..Len(queue_file') :
             queue_file'[i].url = queue_file'[j].url => i = j
       /\ \A i \in 1..Len(queue_file'), j \in 1..Len(suggestions_file') :
             queue_file'[i].url # suggestions_file'[j].url]_vars

\* the suggestions the last review session put in the queue by an answer of
\* the reviewer, with the mode and the depth they were accepted with
AcceptedByReviewer ==
  LET manual == ManualOf(last_call.before)
  IN { IF last_call.batch[i].key = "M"
       THEN modify_suggestion(manual[i], last_call.batch[i])
       ELSE manual[i] :
       i \in { k \in 1..Len(manual) : last_call.batch[k].key \in {"A", "M"} } }

\* C39: a scrape suggestion the reviewer accepted with mode recursive and
\* max_depth d, d in 0..9, is crawled as a recursive job with max_depth d
C39_AcceptedDepthCrawled ==
  (pc = "crawl" /\ last_call.op = "review_suggestions") =>
    \A sg \in AcceptedByReviewer :
       (sg.mode = "recursive" /\ sg.url = Job.url /\ sg.max_depth \in 0..9) =>
          Job.mode = "recursive" /\ Job.max_depth = sg.max_depth

====
